---- MODULE Spec2Model ----
(***************************************************************************)
(* OpenVia agent runtime: the orchestration loop of AgentGateway, the      *)
(* policy engine, the tool executor, the permission bridge and the router  *)
(* that feeds user messages into turns.                                    *)
(***************************************************************************)
EXTENDS Integers, Sequences, FiniteSets, TLC

(***************************************************************************)
(* Strings.  A string is a sequence of one-character strings, so that the  *)
(* code's includes / startsWith / toLowerCase / trim are computed.         *)
(***************************************************************************)

UpperChars == <<"A","B","C","D","E","F","G","H","I","J","K","L","M",
                "N","O","P","Q","R","S","T","U","V","W","X","Y","Z">>

LowerChars == <<"a","b","c","d","e","f","g","h","i","j","k","l","m",
                "n","o","p","q","r","s","t","u","v","w","x","y","z">>

DigitChars == {"0","1","2","3","4","5","6","7","8","9"}

SpaceChars == {" ", "\t", "\n"}

\* The characters " ' and the backquote, written as words.
DoubleQuote == "dquote"

Apostrophe == "apostrophe"

Backtick == "backtick"

Range(s) == { s[i] : i \in DOMAIN s }

LowerChar(c) ==
    IF \E i \in DOMAIN UpperChars : UpperChars[i] = c
    THEN LowerChars[CHOOSE i \in DOMAIN UpperChars : UpperChars[i] = c]
    ELSE c

\* String.prototype.toLowerCase
ToLowerCase(s) == [i \in DOMAIN s |-> LowerChar(s[i])]

\* String.prototype.includes
Includes(s, sub) ==
    \E i \in 1..(Len(s) - Len(sub) + 1) : SubSeq(s, i, i + Len(sub) - 1) = sub

\* String.prototype.startsWith
StartsWith(s, p) == Len(p) <= Len(s) /\ SubSeq(s, 1, Len(p)) = p

\* String.prototype.endsWith
EndsWith(s, p) == Len(p) <= Len(s) /\ SubSeq(s, Len(s) - Len(p) + 1, Len(s)) = p

\* String.prototype.trim
Trim(s) ==
    LET keep == { i \in DOMAIN s : s[i] \notin SpaceChars }
    IN  IF keep = {} THEN << >>
        ELSE LET lo == CHOOSE i \in keep : \A j \in keep : i <= j
                 hi == CHOOSE i \in keep : \A j \in keep : j <= i
             IN  SubSeq(s, lo, hi)

\* The whitespace-separated words of a string (the pieces a \s+ separates).
RECURSIVE Tokens(_)
Tokens(s) ==
    IF s = << >> THEN << >>
    ELSE IF s[1] \in SpaceChars THEN Tokens(Tail(s))
    ELSE LET stops == { i \in DOMAIN s : s[i] \in SpaceChars }
             end == IF stops = {} THEN Len(s) + 1
                    ELSE CHOOSE i \in stops : \A j \in stops : i <= j
         IN  <<SubSeq(s, 1, end - 1)>> \o Tokens(SubSeq(s, end, Len(s)))

\* A value that is not a string: a missing field, or a number.
Undefined == <<"undefined">>

NotAString == <<"number">>

IsString(v) == v # Undefined /\ v # NotAString


(***************************************************************************)
(* Tool registry (core/registry.ts) and the tools registered at startup.   *)
(***************************************************************************)

S_bash == <<"b","a","s","h">>

S_shell == <<"s","h","e","l","l">>

S_read_file == <<"r","e","a","d","_","f","i","l","e">>

S_write_file == <<"w","r","i","t","e","_","f","i","l","e">>

S_ghost == <<"g","h","o","s","t">>

S_rm == <<"r","m"," ","x">>

S_date == <<"d","a","t","e">>

S_path == <<"a",".","t","x","t">>

\* A tool definition: its name and the fields its input schema requires to be
\* strings (tools/bash.ts: command; tools/read.ts, tools/write.ts: path).
\* Of the registered core tools these are the ones the provider of the model
\* names; edit_file, list_skills and read_skill are registered alike.
coreTools ==
    { [name |-> S_bash, required |-> {"command"}],
      [name |-> S_read_file, required |-> {"path"}],
      [name |-> S_write_file, required |-> {"path"}] }

\* ToolRegistry.get: the definition registered under the name, if any.
RegistryHas(tools, name) == \E d \in tools : d.name = name

RegistryGet(tools, name) == CHOOSE d \in tools : d.name = name

\* The arguments of a tool call as the code inspects them: null, undefined or
\* an object whose fields command / path / file are strings or not.
MkArgs(kind, command, path, file) ==
    [kind |-> kind, command |-> command, path |-> path, file |-> file]

ArgField(args, f) ==
    IF args.kind # "object" THEN Undefined
    ELSE IF f = "command" THEN args.command
    ELSE IF f = "path" THEN args.path
    ELSE args.file

\* ToolRegistry.validateArgs: the zod object schema accepts an object whose
\* required fields are strings.
ValidateArgs(tools, name, args) ==
    /\ RegistryHas(tools, name)
    /\ args.kind = "object"
    /\ \A f \in RegistryGet(tools, name).required : IsString(ArgField(args, f))

(***************************************************************************)
(* Policy engine (core/policy.ts).                                         *)
(***************************************************************************)

shellConfirmList ==
    << <<"r","m">>, <<"m","v">>, <<"s","u","d","o">>, <<"s","u">>, <<"d","d">>, <<"r","e","b","o","o","t">>, <<"s","h","u","t","d","o","w","n">>, <<"m","k","f","s">>, <<"c","h","m","o","d">>, <<"c","h","o","w","n">>, <<">">>, <<">",">">>, <<"|">> >>

readOnlyTools ==
    << <<"r","e","a","d">>, <<"r","e","a","d","_","f","i","l","e">>, <<"l","i","s","t">>, <<"l","s">>, <<"s","e","a","r","c","h">>, <<"g","r","e","p">>, <<"g","l","o","b">>, <<"v","i","e","w">> >>

writeTools ==
    << <<"w","r","i","t","e">>, <<"e","d","i","t">>, <<"d","e","l","e","t","e">>, <<"r","e","m","o","v","e">>, <<"c","r","e","a","t","e">> >>

WordChars == Range(LowerChars) \cup Range(UpperChars) \cup DigitChars \cup {"_"}

\* The chaining / redirection test of isSafeReadOnlyShellCommand:
\* ; & && || backquote $(...) > >> <<
HasChaining(raw) ==
    \/ \E i \in DOMAIN raw : raw[i] \in {";", "&", Backtick, ">"}
    \/ Includes(raw, <<"|","|">>)
    \/ Includes(raw, <<"<","<">>)
    \/ \E i \in DOMAIN raw : \E j \in DOMAIN raw :
          /\ i + 2 <= j
          /\ raw[i] = "$" /\ raw[i + 1] = "(" /\ raw[j] = ")"
          /\ \A k \in (i + 2)..(j - 1) : raw[k] # "\n"

\* ^head(?:\s+[chars]+)*$ : the first word is head, every later word is made
\* of chars.
HeadThenWords(toks, head, chars) ==
    /\ Len(toks) >= 1
    /\ toks[1] = head
    /\ \A i \in 2..Len(toks) : Range(toks[i]) \subseteq chars

\* ^head(?:\s+opt)?$ for opt in a set of words.
HeadThenOptional(toks, head, opts) ==
    /\ Len(toks) \in {1, 2}
    /\ toks[1] = head
    /\ Len(toks) = 2 => toks[2] \in opts

\* PolicyEngine.isSafeReadOnlyShellCommand, for a command that is a string.
isSafeReadOnlyShellCommand(command) ==
    LET raw == Trim(command)
        normalized == ToLowerCase(raw)
        toks == Tokens(normalized)
        charsA == WordChars \cup {"-", DoubleQuote, Apostrophe, ":", "."}
        charsB == WordChars \cup {"-", "+", "%", ":", DoubleQuote, Apostrophe, "."}
        charsC == WordChars \cup {"-", "=", ":", "."}
    IN  /\ raw # << >>
        /\ ~HasChaining(raw)
        /\ \/ HeadThenWords(toks, <<"g","e","t","-","d","a","t","e">>, charsA)
           \/ HeadThenWords(toks, <<"g","e","t","-","t","i","m","e","z","o","n","e">>, charsA)
           \/ HeadThenWords(toks, <<"d","a","t","e">>, charsB)
           \/ HeadThenWords(toks, <<"t","i","m","e","d","a","t","e","c","t","l">>, charsC)
           \/ HeadThenWords(toks, <<"h","w","c","l","o","c","k">>, charsC)
           \/ /\ Len(toks) >= 1
              /\ toks[1] = <<"w","3","2","t","m">>
              /\ \E q \in BOOLEAN : \E st \in BOOLEAN : \E v \in BOOLEAN :
                    Tail(toks) = (IF q THEN <<<<"/","q","u","e","r","y">>>> ELSE << >>)
                              \o (IF st THEN <<<<"/","s","t","a","t","u","s">>>> ELSE << >>)
                              \o (IF v THEN <<<<"/","v","e","r","b","o","s","e">>>> ELSE << >>)
           \/ toks = <<<<"t","z","u","t","i","l">>, <<"/","g">>>>
           \/ HeadThenOptional(toks, <<"w","h","o","a","m","i">>,
                 {<<"/","u","s","e","r">>, <<"/","g","r","o","u","p","s">>, <<"/","p","r","i","v">>})
           \/ toks = <<<<"h","o","s","t","n","a","m","e">>>>
           \/ /\ Len(toks) \in {1, 2}
              /\ toks[1] = <<"u","n","a","m","e">>
              /\ Len(toks) = 2 =>
                    /\ Len(toks[2]) >= 2
                    /\ toks[2][1] = "-"
                    /\ Range(Tail(toks[2])) \subseteq
                          {"a","s","n","r","v","m","p","i","o"}
           \/ HeadThenOptional(toks, <<"u","p","t","i","m","e">>, {<<"-","p">>, <<"-","s">>})
           \/ toks = <<<<"g","e","t","-","l","o","c","a","t","i","o","n">>>>
           \/ toks = <<<<"p","w","d">>>>

\* PolicyEngine.matchPattern
matchPattern(name, pattern) ==
    IF pattern = <<"*">> THEN TRUE
    ELSE IF EndsWith(pattern, <<"*">>)
         THEN StartsWith(name, SubSeq(pattern, 1, Len(pattern) - 1))
         ELSE name = pattern

\* A policy decision; msg carries the reason or the prompt as the pieces the
\* code puts into its template string.
Decision(type, text, tool, detail) ==
    [type |-> type, text |-> text, tool |-> tool, detail |-> detail]

\* The session lists: deniedTools (absent = empty) and allowedTools (optional).
MkSession(userId, chatId, denied, hasAllowed, allowed) ==
    [userId |-> userId, chatId |-> chatId, deniedTools |-> denied,
     hasAllowedTools |-> hasAllowed, allowedTools |-> allowed]

\* The decision of the first rule matching the name, if any.
RuleDecision(name, rule) ==
    IF rule.decision = "allow" THEN Decision("allow", "", name, << >>)
    ELSE IF rule.decision = "deny"
         THEN Decision("deny", IF rule.reason # "" THEN rule.reason
                               ELSE "Denied by policy rule", name, << >>)
         ELSE Decision("require_approval",
                       IF rule.reason # "" THEN rule.reason ELSE "Approve ?",
                       name, << >>)

\* BuiltinDecision without the step that allows the read-only tools.
BuiltinDecisionNoReadOnly(name, args, confirmList) ==
    LET lname == ToLowerCase(name)
        command == IF ArgField(args, "command") \in {Undefined, << >>}
                   THEN << >> ELSE ArgField(args, "command")
        filePath == IF ArgField(args, "path") \notin {Undefined, << >>}
                    THEN ArgField(args, "path")
                    ELSE IF ArgField(args, "file") \notin {Undefined, << >>}
                         THEN ArgField(args, "file")
                         ELSE <<"u","n","k","n","o","w","n">>
    IN  IF lname = S_bash \/ lname = S_shell
        THEN IF command = NotAString
             THEN Decision("throw", "command.trim is not a function", name, << >>)
             ELSE IF isSafeReadOnlyShellCommand(command)
             THEN Decision("allow", "", name, << >>)
             ELSE IF \E i \in DOMAIN confirmList : Includes(command, confirmList[i])
             THEN Decision("require_approval", "Permission Request Command", name, command)
             ELSE Decision("allow", "", name, << >>)
        ELSE IF \E i \in DOMAIN writeTools : Includes(lname, writeTools[i])
        THEN Decision("require_approval", "Permission Request File", name, filePath)
        ELSE IF args.kind = "undefined"
        THEN Decision("throw", "JSON.stringify(args) is undefined", name, << >>)
        ELSE Decision("require_approval", "Permission Request Args", name, << >>)

\* The built-in part of PolicyEngine.evaluate (steps 3 to 6).  A decision of
\* type "throw" is the TypeError the code raises on the way.
BuiltinDecision(name, args, confirmList) ==
    LET lname == ToLowerCase(name)
        command == IF ArgField(args, "command") \in {Undefined, << >>}
                   THEN << >> ELSE ArgField(args, "command")
        filePath == IF ArgField(args, "path") \notin {Undefined, << >>}
                    THEN ArgField(args, "path")
                    ELSE IF ArgField(args, "file") \notin {Undefined, << >>}
                         THEN ArgField(args, "file")
                         ELSE <<"u","n","k","n","o","w","n">>
    IN  IF \E i \in DOMAIN readOnlyTools : Includes(lname, readOnlyTools[i])
        THEN Decision("allow", "", name, << >>)
        ELSE IF lname = S_bash \/ lname = S_shell
        THEN IF command = NotAString
             THEN Decision("throw", "command.trim is not a function", name, << >>)
             ELSE IF isSafeReadOnlyShellCommand(command)
             THEN Decision("allow", "", name, << >>)
             ELSE IF \E i \in DOMAIN confirmList : Includes(command, confirmList[i])
             THEN Decision("require_approval", "Permission Request Command", name, command)
             ELSE Decision("allow", "", name, << >>)
        ELSE IF \E i \in DOMAIN writeTools : Includes(lname, writeTools[i])
        THEN Decision("require_approval", "Permission Request File", name, filePath)
        ELSE IF args.kind = "undefined"
        THEN Decision("throw", "JSON.stringify(args) is undefined", name, << >>)
        ELSE Decision("require_approval", "Permission Request Args", name, << >>)

\* Evaluate with the rules consulted before the session lists.
EvaluateRulesFirst(name, args, session, ruleList, confirmList) ==
    IF \E i \in DOMAIN ruleList : matchPattern(name, ruleList[i].toolPattern)
    THEN RuleDecision(name,
            ruleList[CHOOSE i \in DOMAIN ruleList :
                        /\ matchPattern(name, ruleList[i].toolPattern)
                        /\ \A j \in DOMAIN ruleList :
                              matchPattern(name, ruleList[j].toolPattern) => i <= j])
    ELSE IF name \in session.deniedTools
    THEN Decision("deny", "is denied for this user", name, << >>)
    ELSE IF session.hasAllowedTools /\ name \notin session.allowedTools
    THEN Decision("deny", "is not in allowed list", name, << >>)
    ELSE BuiltinDecision(name, args, confirmList)

\* Evaluate with the last matching rule deciding.
EvaluateLastMatch(name, args, session, ruleList, confirmList) ==
    IF name \in session.deniedTools
    THEN Decision("deny", "is denied for this user", name, << >>)
    ELSE IF session.hasAllowedTools /\ name \notin session.allowedTools
    THEN Decision("deny", "is not in allowed list", name, << >>)
    ELSE IF \E i \in DOMAIN ruleList : matchPattern(name, ruleList[i].toolPattern)
    THEN RuleDecision(name,
            ruleList[CHOOSE i \in DOMAIN ruleList :
                        /\ matchPattern(name, ruleList[i].toolPattern)
                        /\ \A j \in DOMAIN ruleList :
                              matchPattern(name, ruleList[j].toolPattern) => j <= i])
    ELSE BuiltinDecision(name, args, confirmList)

\* PolicyEngine.evaluate
Evaluate(name, args, session, ruleList, confirmList) ==
    IF name \in session.deniedTools
    THEN Decision("deny", "is denied for this user", name, << >>)
    ELSE IF session.hasAllowedTools /\ name \notin session.allowedTools
    THEN Decision("deny", "is not in allowed list", name, << >>)
    ELSE IF \E i \in DOMAIN ruleList : matchPattern(name, ruleList[i].toolPattern)
    THEN RuleDecision(name,
            ruleList[CHOOSE i \in DOMAIN ruleList :
                        /\ matchPattern(name, ruleList[i].toolPattern)
                        /\ \A j \in DOMAIN ruleList :
                              matchPattern(name, ruleList[j].toolPattern) => i <= j])
    ELSE BuiltinDecision(name, args, confirmList)

maxAuditEntries == 1000

\* LogAudit dropping the entries beyond the capacity, the newest ones.
LogAuditKeepOldest(log, entry) ==
    LET l == Append(log, entry)
    IN  IF Len(l) > maxAuditEntries
        THEN SubSeq(l, 1, maxAuditEntries)
        ELSE l

\* PolicyEngine.logAudit: append, then keep the newest maxAuditEntries.
LogAudit(log, entry) ==
    LET l == Append(log, entry)
    IN  IF Len(l) > maxAuditEntries
        THEN SubSeq(l, Len(l) - maxAuditEntries + 1, Len(l))
        ELSE l


(***************************************************************************)
(* Tool executor (ToolExecutor in core/registry.ts).                        *)
(***************************************************************************)

ToolResult(success, error) == [success |-> success, error |-> error]

\* What the tool's own executor function does once it is invoked: it returns
\* success, returns a failure, or throws (the catch turns the exception into
\* a failure; both carry an error text chosen by the tool).
ToolOutcomes == {"ok", "fail", "throw"}

\* ToolExecutor.execute reaches step 3 (the tool's executor function runs).
ExecutorRuns(tools, name, args) ==
    RegistryHas(tools, name) /\ ValidateArgs(tools, name, args)

\* ToolExecutor.execute
Execute(tools, name, args, outcome) ==
    IF ~RegistryHas(tools, name) THEN ToolResult(FALSE, "Tool not found")
    ELSE IF ~ValidateArgs(tools, name, args) THEN ToolResult(FALSE, "Invalid arguments")
    ELSE IF outcome = "ok" THEN ToolResult(TRUE, "")
    ELSE ToolResult(FALSE, "tool error")

(***************************************************************************)
(* Bounds of the model.                                                    *)
(***************************************************************************)

\* Largest configured maxIterations explored.
MaxIterCfg == 3

\* Events (text deltas and tool calls) the provider emits in one turn when a
\* single turn of the gateway is explored.
MaxLlmEvents == 3

\* Events the provider emits in a run when two routed turns are explored.
MaxLlmEventsApp == 2

\* Rules added to the policy engine at most.
MaxRules == 2

\* logAudit calls an engine has made when a run of the audit log alone
\* starts, and has made at most when it ends: more than the log holds.
AuditedBefore == 900

MaxAuditCalls == 1002

\* Messages pushed in a run of one session's history: more than MAX_HISTORY.
MaxPushes == 21

\* Messages pushed in a run of the session store with its sweep.
MaxSweepPushes == 2

\* Clock advances in a run of the session store with its sweep.
MaxTicks == 3

\* Text deltas and tool calls the provider emits in a turn with a history.
MaxLlmEventsMsg == 2

\* Messages added in a run of the session store called by pairs.
MaxKeyedMessages == 2

\* Text deltas and tool calls the provider emits in a run with the sweep.
MaxLlmEventsEvict == 1

\* The messages (turns) of a run, numbered in order of arrival.
Turns == {1, 2}

Users == {"U1", "U2"}

Decisions == {"allow", "deny"}

(***************************************************************************)
(* State.                                                                  *)
(***************************************************************************)

VARIABLES
    maxIterations,     \* AgentGateway.config.maxIterations
    auditLog,          \* PolicyEngine.auditLog
    turnSet,           \* the turns this run may start
    toolKinds,         \* the tool calls the provider may emit in this run
    llmBudget,         \* text deltas and tool calls the provider emits at most in the run
    nextCallId,        \* per turn: the id the provider gives its next tool call
    textCount,         \* per turn: text deltas emitted so far
    pc,                \* per turn: where handleMessage is suspended
    input,             \* per turn: the AgentInput (session, onPermissionRequest)
    iteration,         \* per turn: loop counter of handleMessage
    pendingToolCalls,  \* per turn: tool calls collected in the current round
    tcIdx,             \* per turn: position in pendingToolCalls
    fullResponse,      \* per turn: accumulated text
    lastToolResults,   \* per turn: results of the previous round
    roundResults,      \* per turn: toolResultsForNextRound
    events,            \* per turn: the AgentEvents yielded so far
    chatLog,           \* per turn: the requests llm.chat received
    execLog,           \* per turn: ToolExecutor.execute invocations
    approvals,         \* per turn: what onPermissionRequest returned, per call
    handler,           \* PermissionBridge.handler is set
    requests,          \* every PendingRequest created, by id, with its promise
    handlerCall,       \* per request: what became of the handler's invocation
    pendingRequests,   \* PermissionBridge.pendingRequests (ids)
    lastNoop,          \* id of the last resolveRequest call that found nothing pending (0: none)
    reqOf,             \* per turn: the request its callback is waiting for
    routerPc,          \* per turn: where the router's handleMessage is
    sessions,          \* session store: history per user
    replies,           \* per turn: what sendReply was called with
    allowedUsers,      \* allowedUsersByChannelInternal: the whitelist of every channel
    rules,             \* PolicyEngine.rules
    shellList,         \* PolicyEngine.shellConfirmList as configured
    evalCall,          \* the last direct call of PolicyEngine.evaluate and what it returned
    auditCalls,        \* PolicyEngine.logAudit calls made so far
    now,               \* Date.now()
    sessionKeys,       \* session store: the keys the map holds
    lastActivity,      \* session store: lastActivity per session
    sessionId,         \* session store: per user, the number of Session objects created so far
    heldId,            \* per turn: the Session object the router's handler got
    sessionsByKey,     \* session store: the Session object of every key of the map
    gotHistory,        \* the last getHistory call by its pair, and what it returned
    holding,           \* per user: a handled message holds the session the map has
    pushCount,         \* messages pushed onto histories so far
    tickCount,         \* clock advances so far
    storeCfg,          \* the users and the number of messages of a run of the session store
    adapterKind,       \* the wire format of the adapter whose chat() runs
    adapterPc,         \* where chat() is
    adapterIn,         \* the frames of the response stream chat() has read
    adapterState,      \* the parser state of chat(): pending tool calls, emitted call ids
    adapterOut,        \* the LLMEvents chat() has yielded
    adapterTimer,      \* the timeout chat() set for its AbortController
    registered,        \* ToolRegistry.tools of a registry used on its own
    schemas,           \* the last getSchemas call and what it returned
    executed,          \* the last ToolExecutor.execute call and how it settled
    llmMaxIterations,  \* llm.maxIterations of the configuration: no value or one
    channels,          \* the channels the BotManager started
    arrival            \* per turn: the user and the channel the message came from

gatewayVars ==
    << maxIterations, auditLog, turnSet, toolKinds, llmBudget, nextCallId,
       textCount, pc, input, iteration, pendingToolCalls, tcIdx, fullResponse, lastToolResults,
       roundResults, events, chatLog, execLog, approvals >>

bridgeVars == << handler, requests, handlerCall, pendingRequests, lastNoop, reqOf >>

routerVars == << routerPc, sessions, replies, allowedUsers >>

policyVars == << rules, shellList, evalCall >>

storeVars == << now, holding, pushCount, tickCount, storeCfg >>

keyVars == << sessionsByKey, gotHistory >>

adapterVars ==
    << adapterKind, adapterPc, adapterIn, adapterState, adapterOut, adapterTimer >>

registryVars == << registered, schemas, executed >>

configVars == << llmMaxIterations, channels, arrival >>

\* The state of the parts that are exercised on their own.
unitVars == << keyVars, adapterVars, registryVars, configVars >>

\* What the gateway, the bridge and the router's reply leave alone.
extVars == << policyVars, auditCalls, storeVars, sessionKeys, lastActivity, sessionId, heldId, unitVars >>

vars == << gatewayVars, bridgeVars, routerVars, extVars >>

(***************************************************************************)
(* AgentGateway (core/gateway.ts).                                         *)
(***************************************************************************)

\* new AgentGateway(..., {maxIterations}): config.maxIterations || 10, where
\* 0 stands for a value that is 0 or not configured.
GatewayMaxIterations(configured) == IF configured = 0 THEN 10 ELSE configured

NoResult == ToolResult(FALSE, "")

NoArgs == MkArgs("undefined", Undefined, Undefined, Undefined)

\* An AgentEvent.
Ev(type, id, name, args, result, text) ==
    [type |-> type, id |-> id, name |-> name, args |-> args,
     result |-> result, text |-> text]

TextDelta(content) == Ev("text_delta", 0, << >>, NoArgs, NoResult, <<content>>)

ToolStartEv(tc) == Ev("tool_start", tc.id, tc.name, tc.args, NoResult, << >>)

ToolPendingEv(tc, prompt) == Ev("tool_pending", tc.id, tc.name, tc.args, NoResult, prompt)

ToolResultEv(tc, result) == Ev("tool_result", tc.id, tc.name, tc.args, result, << >>)

DoneEv(full) == Ev("done", 0, << >>, NoArgs, NoResult, full)

ErrorEv(message) == Ev("error", 0, << >>, NoArgs, NoResult, message)

MaxIterationsMessage(n) == <<"Max iterations reached", n>>

\* JSON.stringify(result): an object with success, and error when there is
\* one.
StringifyResult(result) ==
    IF result.error = "" THEN <<"success", result.success>>
    ELSE <<"success", result.success, "error", result.error>>

\* The record pushed onto toolResultsForNextRound.
LLMToolResult(tc, result, isError) ==
    [toolCallId |-> tc.id, toolName |-> tc.name, toolArgs |-> tc.args,
     toolCallMeta |-> tc.meta,
     content |-> StringifyResult(result),
     isError |-> isError]

\* The meta a Gemini tool call carries.
ThoughtSignature == <<"thoughtSignature">>

\* The tool calls a provider may emit: name, arguments and meta.
ToolCallKinds ==
    { [name |-> S_read_file, args |-> MkArgs("object", Undefined, S_path, Undefined),
        meta |-> ThoughtSignature],
      [name |-> S_read_file, args |-> MkArgs("object", Undefined, Undefined, Undefined),
        meta |-> Undefined],
      [name |-> S_bash, args |-> MkArgs("object", S_rm, Undefined, Undefined),
        meta |-> Undefined],
      [name |-> S_bash, args |-> MkArgs("object", NotAString, Undefined, Undefined),
        meta |-> Undefined],
      [name |-> S_ghost, args |-> MkArgs("object", Undefined, Undefined, Undefined),
        meta |-> Undefined],
      [name |-> << >>, args |-> MkArgs("object", Undefined, Undefined, Undefined),
        meta |-> Undefined] }

\* The tool call the provider emits when two routed turns are explored: a
\* shell command that needs approval.
AppToolCallKinds ==
    { [name |-> S_bash, args |-> MkArgs("object", S_rm, Undefined, Undefined),
        meta |-> Undefined] }

\* The text the provider streams in turn t.
TextOf(t) == <<"reply", t>>

\* The sessions a direct caller of the gateway may pass.
CallerSessions ==
    { MkSession("U1", "chat", {}, FALSE, {}),
      MkSession("U1", "chat", {S_bash}, FALSE, {}) }

\* Provider events emitted so far, over all turns.
LlmEventCount == (nextCallId[1] - 1) + textCount[1] + (nextCallId[2] - 1) + textCount[2]

CurrentCall(t) == pendingToolCalls[t][tcIdx[t]]

\* The conversation a caller hands to the gateway before the current message.
PriorHistory ==
    << [role |-> "user", content |-> <<"earlier">>],
       [role |-> "assistant", content |-> <<"answer">>] >>

\* The history a direct caller may pass: none, an empty one, a conversation.
HistoryChoices == { Undefined, << >>, PriorHistory }

\* The message of turn t.
MessageOf(t) == <<"message", t>>

\* const messages: a copy of the history when one with messages is passed,
\* otherwise the user message alone.
MessagesOf(inp) ==
    IF inp.history # Undefined /\ Len(inp.history) > 0
    THEN inp.history
    ELSE << [role |-> "user", content |-> inp.message] >>

\* The head of the for loop at iteration it of a turn with input inp: either
\* llm.chat is called with the messages and the previous round's results, or
\* the loop is over and the error is yielded.
EnterRoundWith(t, inp, evs, it, last) ==
    IF it < maxIterations
    THEN /\ pc' = [pc EXCEPT ![t] = "llm"]
         /\ chatLog' = [chatLog EXCEPT ![t] = Append(@,
                [round |-> it + 1,
                 messages |-> MessagesOf(inp),
                 hasToolResults |-> Len(last) > 0,
                 toolResults |-> last ])]
         /\ events' = [events EXCEPT ![t] = evs]
    ELSE /\ pc' = [pc EXCEPT ![t] = "error"]
         /\ events' = [events EXCEPT ![t] =
                Append(evs, ErrorEv(MaxIterationsMessage(maxIterations)))]
         /\ chatLog' = chatLog

\* The head of the for loop at iteration it of turn t.
EnterRound(t, evs, it, last) == EnterRoundWith(t, input[t], evs, it, last)

\* handleMessage is called with a history and runs up to its first llm.chat
\* call.
StartTurnInput(t, sess, cb, history) ==
    LET inp == [session |-> sess, onPermissionRequest |-> cb,
                message |-> MessageOf(t), history |-> history]
    IN  /\ pc[t] = "idle"
        /\ input' = [input EXCEPT ![t] = inp]
        /\ EnterRoundWith(t, inp, << >>, 0, << >>)

\* handleMessage is called without a history and runs up to its first
\* llm.chat call.
StartTurn(t, sess, cb) == StartTurnInput(t, sess, cb, Undefined)

\* A caller invokes handleMessage directly, with or without a callback.
GatewayStart(t) ==
    /\ t \in turnSet
    /\ \E sess \in CallerSessions : \E cb \in {"none", "stub"} :
          StartTurn(t, sess, cb)
    /\ UNCHANGED << maxIterations, auditLog, turnSet, toolKinds, llmBudget,
                    nextCallId, textCount, iteration, pendingToolCalls,
                    tcIdx, fullResponse, lastToolResults, roundResults,
                    execLog, approvals, handler, requests, handlerCall,
                    pendingRequests, lastNoop, reqOf, routerPc, sessions,
                    replies, allowedUsers >>
    /\ UNCHANGED extVars

\* A caller invokes handleMessage directly and may pass a history.
GatewayStartWithHistory(t) ==
    /\ t \in turnSet
    /\ \E sess \in CallerSessions : \E cb \in {"none", "stub"} :
          \E history \in HistoryChoices : StartTurnInput(t, sess, cb, history)
    /\ UNCHANGED << maxIterations, auditLog, turnSet, toolKinds, llmBudget,
                    nextCallId, textCount, iteration, pendingToolCalls,
                    tcIdx, fullResponse, lastToolResults, roundResults,
                    execLog, approvals, handler, requests, handlerCall,
                    pendingRequests, lastNoop, reqOf, routerPc, sessions,
                    replies, allowedUsers >>
    /\ UNCHANGED extVars

\* case 'text_delta'
LlmTextDelta(t) ==
    /\ pc[t] = "llm"
    /\ LlmEventCount < llmBudget
    /\ textCount' = [textCount EXCEPT ![t] = @ + 1]
    /\ fullResponse' = [fullResponse EXCEPT ![t] = Append(@, TextOf(t))]
    /\ events' = [events EXCEPT ![t] = Append(@, TextDelta(TextOf(t)))]
    /\ UNCHANGED << maxIterations, auditLog, turnSet, toolKinds, llmBudget,
                    nextCallId, pc, input, iteration, pendingToolCalls,
                    tcIdx, lastToolResults, roundResults, chatLog, execLog,
                    approvals, handler, requests, handlerCall,
                    pendingRequests, lastNoop, reqOf, routerPc, sessions,
                    replies, allowedUsers >>
    /\ UNCHANGED extVars

\* case 'tool_call': collected when it has a name, ignored otherwise.
LlmToolCall(t) ==
    /\ pc[t] = "llm"
    /\ LlmEventCount < llmBudget
    /\ \E k \in toolKinds :
          pendingToolCalls' = [pendingToolCalls EXCEPT ![t] =
              IF k.name # << >>
              THEN Append(@, [id |-> nextCallId[t], name |-> k.name,
                               args |-> k.args, meta |-> k.meta])
              ELSE @]
    /\ nextCallId' = [nextCallId EXCEPT ![t] = @ + 1]
    /\ UNCHANGED << maxIterations, auditLog, turnSet, toolKinds, llmBudget,
                    textCount, pc, input, iteration, tcIdx, fullResponse,
                    lastToolResults, roundResults, events, chatLog, execLog,
                    approvals, handler, requests, handlerCall,
                    pendingRequests, lastNoop, reqOf, routerPc, sessions,
                    replies, allowedUsers >>
    /\ UNCHANGED extVars

\* case 'done': with no tool call collected the turn ends with done,
\* otherwise the stream is read on.  (The response id the event may carry is
\* only handed back to the next llm.chat call; it is not part of the state.)
LlmDone(t) ==
    /\ pc[t] = "llm"
    /\ IF pendingToolCalls[t] = << >>
       THEN /\ events' = [events EXCEPT ![t] = Append(@, DoneEv(fullResponse[t]))]
            /\ pc' = [pc EXCEPT ![t] = "done"]
       ELSE UNCHANGED << events, pc >>
    /\ UNCHANGED << maxIterations, auditLog, turnSet, toolKinds, llmBudget,
                    nextCallId, textCount, input, iteration,
                    pendingToolCalls, tcIdx, fullResponse, lastToolResults,
                    roundResults, chatLog, execLog, approvals, handler,
                    requests, handlerCall, pendingRequests, lastNoop, reqOf,
                    routerPc, sessions, replies, allowedUsers >>
    /\ UNCHANGED extVars

\* LlmError with the error yielded but the round carried on to its collected
\* tool calls (a break where the code returns).
LlmErrorMutant(t) ==
    /\ pc[t] = "llm"
    /\ events' = [events EXCEPT ![t] = Append(@, ErrorEv(<<"llm error">>))]
    /\ IF pendingToolCalls[t] = << >>
       THEN /\ pc' = [pc EXCEPT ![t] = "error"]
            /\ UNCHANGED << tcIdx, roundResults >>
       ELSE /\ pc' = [pc EXCEPT ![t] = "tool"]
            /\ tcIdx' = [tcIdx EXCEPT ![t] = 1]
            /\ roundResults' = [roundResults EXCEPT ![t] = << >>]
    /\ UNCHANGED << maxIterations, auditLog, turnSet, toolKinds, llmBudget,
                    nextCallId, textCount, input, iteration,
                    pendingToolCalls, fullResponse, lastToolResults, chatLog,
                    execLog, approvals, handler, requests, handlerCall,
                    pendingRequests, lastNoop, reqOf, routerPc, sessions,
                    replies, allowedUsers >>
    /\ UNCHANGED extVars

\* case 'error', and the catch around the for await: the error is yielded
\* and handleMessage returns.
LlmError(t) ==
    /\ pc[t] = "llm"
    /\ events' = [events EXCEPT ![t] = Append(@, ErrorEv(<<"llm error">>))]
    /\ pc' = [pc EXCEPT ![t] = "error"]
    /\ UNCHANGED << maxIterations, auditLog, turnSet, toolKinds, llmBudget,
                    nextCallId, textCount, input, iteration,
                    pendingToolCalls, tcIdx, fullResponse, lastToolResults,
                    roundResults, chatLog, execLog, approvals, handler,
                    requests, handlerCall, pendingRequests, lastNoop, reqOf,
                    routerPc, sessions, replies, allowedUsers >>
    /\ UNCHANGED extVars

\* The chat sequence is exhausted: done when no tool call was collected,
\* otherwise the tool calls are processed.
LlmStreamEnd(t) ==
    /\ pc[t] = "llm"
    /\ IF pendingToolCalls[t] = << >>
       THEN /\ events' = [events EXCEPT ![t] = Append(@, DoneEv(fullResponse[t]))]
            /\ pc' = [pc EXCEPT ![t] = "done"]
            /\ UNCHANGED << tcIdx, roundResults >>
       ELSE /\ pc' = [pc EXCEPT ![t] = "tool"]
            /\ tcIdx' = [tcIdx EXCEPT ![t] = 1]
            /\ roundResults' = [roundResults EXCEPT ![t] = << >>]
            /\ UNCHANGED events
    /\ UNCHANGED << maxIterations, auditLog, turnSet, toolKinds, llmBudget,
                    nextCallId, textCount, input, iteration,
                    pendingToolCalls, fullResponse, lastToolResults, chatLog,
                    execLog, approvals, handler, requests, handlerCall,
                    pendingRequests, lastNoop, reqOf, routerPc, sessions,
                    replies, allowedUsers >>
    /\ UNCHANGED extVars

\* The events once tool_start is yielded for the current call.
StartedEvents(t) == Append(events[t], ToolStartEv(CurrentCall(t)))

\* FinishCall handing the next round the results of the earlier rounds too.
FinishCallAccumulating(t, evs, result, isError) ==
    LET pushed == Append(roundResults[t], LLMToolResult(CurrentCall(t), result, isError))
        yielded == Append(evs, ToolResultEv(CurrentCall(t), result))
    IN  /\ roundResults' = [roundResults EXCEPT ![t] = pushed]
        /\ IF tcIdx[t] < Len(pendingToolCalls[t])
           THEN /\ tcIdx' = [tcIdx EXCEPT ![t] = @ + 1]
                /\ pc' = [pc EXCEPT ![t] = "tool"]
                /\ events' = [events EXCEPT ![t] = yielded]
                /\ UNCHANGED << lastToolResults, iteration, pendingToolCalls, chatLog >>
           ELSE /\ tcIdx' = tcIdx
                /\ lastToolResults' = [lastToolResults EXCEPT ![t] = @ \o pushed]
                /\ iteration' = [iteration EXCEPT ![t] = @ + 1]
                /\ pendingToolCalls' = [pendingToolCalls EXCEPT ![t] = << >>]
                /\ EnterRound(t, yielded, iteration[t] + 1, lastToolResults[t] \o pushed)

\* FinishCall with a failed result ending the turn with an error event.
FinishCallMutant(t, evs, result, isError) ==
    LET pushed == Append(roundResults[t], LLMToolResult(CurrentCall(t), result, isError))
        yielded == Append(evs, ToolResultEv(CurrentCall(t), result))
    IN  /\ roundResults' = [roundResults EXCEPT ![t] = pushed]
        /\ IF isError
           THEN /\ pc' = [pc EXCEPT ![t] = "error"]
                /\ events' = [events EXCEPT ![t] = Append(yielded, ErrorEv(<<"tool failed">>))]
                /\ UNCHANGED << tcIdx, lastToolResults, iteration, pendingToolCalls, chatLog >>
           ELSE IF tcIdx[t] < Len(pendingToolCalls[t])
           THEN /\ tcIdx' = [tcIdx EXCEPT ![t] = @ + 1]
                /\ pc' = [pc EXCEPT ![t] = "tool"]
                /\ events' = [events EXCEPT ![t] = yielded]
                /\ UNCHANGED << lastToolResults, iteration, pendingToolCalls, chatLog >>
           ELSE /\ tcIdx' = tcIdx
                /\ lastToolResults' = [lastToolResults EXCEPT ![t] = pushed]
                /\ iteration' = [iteration EXCEPT ![t] = @ + 1]
                /\ pendingToolCalls' = [pendingToolCalls EXCEPT ![t] = << >>]
                /\ EnterRound(t, yielded, iteration[t] + 1, pushed)

\* After evs: yield tool_result and push the record for the next round; then
\* the next call, or after the last one lastToolResults =
\* toolResultsForNextRound and the loop goes to its next iteration.
FinishCall(t, evs, result, isError) ==
    LET pushed == Append(roundResults[t], LLMToolResult(CurrentCall(t), result, isError))
        yielded == Append(evs, ToolResultEv(CurrentCall(t), result))
    IN  /\ roundResults' = [roundResults EXCEPT ![t] = pushed]
        /\ IF tcIdx[t] < Len(pendingToolCalls[t])
           THEN /\ tcIdx' = [tcIdx EXCEPT ![t] = @ + 1]
                /\ pc' = [pc EXCEPT ![t] = "tool"]
                /\ events' = [events EXCEPT ![t] = yielded]
                /\ UNCHANGED << lastToolResults, iteration, pendingToolCalls, chatLog >>
           ELSE /\ tcIdx' = tcIdx
                /\ lastToolResults' = [lastToolResults EXCEPT ![t] = pushed]
                /\ iteration' = [iteration EXCEPT ![t] = @ + 1]
                /\ pendingToolCalls' = [pendingToolCalls EXCEPT ![t] = << >>]
                /\ EnterRound(t, yielded, iteration[t] + 1, pushed)

\* executor.execute for the current call, recorded in execLog, and the
\* tool_result for what it returned.
ExecuteCall(t, evs, via) ==
    /\ execLog' = [execLog EXCEPT ![t] = Append(@,
           [id |-> CurrentCall(t).id, name |-> CurrentCall(t).name, via |-> via,
            ran |-> ExecutorRuns(coreTools, CurrentCall(t).name, CurrentCall(t).args)])]
    /\ \E o \in ToolOutcomes :
          LET r == Execute(coreTools, CurrentCall(t).name, CurrentCall(t).args, o)
          IN  FinishCall(t, evs, r, ~r.success)

PolicyOf(t) ==
    Evaluate(CurrentCall(t).name, CurrentCall(t).args, input[t].session,
             << >>, shellConfirmList)

Audit(t) ==
    /\ auditLog' = LogAudit(auditLog,
           [userId |-> input[t].session.userId, chatId |-> input[t].session.chatId,
            tool |-> CurrentCall(t).name, args |-> CurrentCall(t).args,
            decision |-> PolicyOf(t)])
    /\ auditCalls' = auditCalls + 1

\* tool_start, then registry.get finds nothing: a failed result, no policy
\* evaluation.
ToolNotFound(t) ==
    /\ pc[t] = "tool"
    /\ ~RegistryHas(coreTools, CurrentCall(t).name)
    /\ FinishCall(t, StartedEvents(t), ToolResult(FALSE, "Tool not found"), TRUE)
    /\ UNCHANGED << maxIterations, auditLog, turnSet, toolKinds, llmBudget,
                    nextCallId, textCount, input, fullResponse, execLog,
                    approvals, handler, requests, handlerCall,
                    pendingRequests, lastNoop, reqOf, routerPc, sessions,
                    replies, allowedUsers >>
    /\ UNCHANGED extVars

\* tool_start, then policy.evaluate throws: the exception leaves
\* handleMessage.
PolicyThrows(t) ==
    /\ pc[t] = "tool"
    /\ RegistryHas(coreTools, CurrentCall(t).name)
    /\ PolicyOf(t).type = "throw"
    /\ events' = [events EXCEPT ![t] = StartedEvents(t)]
    /\ pc' = [pc EXCEPT ![t] = "crashed"]
    /\ UNCHANGED << maxIterations, auditLog, turnSet, toolKinds, llmBudget,
                    nextCallId, textCount, input, iteration,
                    pendingToolCalls, tcIdx, fullResponse, lastToolResults,
                    roundResults, chatLog, execLog, approvals, handler,
                    requests, handlerCall, pendingRequests, lastNoop, reqOf,
                    routerPc, sessions, replies, allowedUsers >>
    /\ UNCHANGED extVars

\* tool_start, then decision.type === 'deny'
PolicyDeny(t) ==
    /\ pc[t] = "tool"
    /\ RegistryHas(coreTools, CurrentCall(t).name)
    /\ PolicyOf(t).type = "deny"
    /\ Audit(t)
    /\ FinishCall(t, StartedEvents(t), ToolResult(FALSE, PolicyOf(t).text), TRUE)
    /\ UNCHANGED << maxIterations, turnSet, toolKinds, llmBudget, nextCallId,
                    textCount, input, fullResponse, execLog, approvals,
                    handler, requests, handlerCall, pendingRequests,
                    lastNoop, reqOf, routerPc, sessions, replies,
                    allowedUsers >>
    /\ UNCHANGED << policyVars, storeVars, sessionKeys, lastActivity, sessionId, heldId, unitVars >>

\* tool_start, then decision.type === 'require_approval': yield tool_pending.
PolicyRequireApproval(t) ==
    /\ pc[t] = "tool"
    /\ RegistryHas(coreTools, CurrentCall(t).name)
    /\ PolicyOf(t).type = "require_approval"
    /\ Audit(t)
    /\ events' = [events EXCEPT ![t] =
           Append(StartedEvents(t),
                  ToolPendingEv(CurrentCall(t), <<PolicyOf(t).text, PolicyOf(t).detail>>))]
    /\ pc' = [pc EXCEPT ![t] = "pending"]
    /\ UNCHANGED << maxIterations, turnSet, toolKinds, llmBudget, nextCallId,
                    textCount, input, iteration, pendingToolCalls, tcIdx,
                    fullResponse, lastToolResults, roundResults, chatLog,
                    execLog, approvals, handler, requests, handlerCall,
                    pendingRequests, lastNoop, reqOf, routerPc, sessions,
                    replies, allowedUsers >>
    /\ UNCHANGED << policyVars, storeVars, sessionKeys, lastActivity, sessionId, heldId, unitVars >>

\* tool_start, then allow: execute and yield the result.
PolicyAllow(t) ==
    /\ pc[t] = "tool"
    /\ RegistryHas(coreTools, CurrentCall(t).name)
    /\ PolicyOf(t).type = "allow"
    /\ Audit(t)
    /\ ExecuteCall(t, StartedEvents(t), "allow")
    /\ UNCHANGED << maxIterations, turnSet, toolKinds, llmBudget, nextCallId,
                    textCount, input, fullResponse, approvals, handler,
                    requests, handlerCall, pendingRequests, lastNoop, reqOf,
                    routerPc, sessions, replies, allowedUsers >>
    /\ UNCHANGED << policyVars, storeVars, sessionKeys, lastActivity, sessionId, heldId, unitVars >>

\* After tool_pending: approved stays false when no callback was supplied.
ApprovalNoCallback(t) ==
    /\ pc[t] = "pending"
    /\ input[t].onPermissionRequest = "none"
    /\ FinishCall(t, events[t], ToolResult(FALSE, "User denied permission"), TRUE)
    /\ UNCHANGED << maxIterations, auditLog, turnSet, toolKinds, llmBudget,
                    nextCallId, textCount, input, fullResponse, execLog,
                    approvals, handler, requests, handlerCall,
                    pendingRequests, lastNoop, reqOf, routerPc, sessions,
                    replies, allowedUsers >>
    /\ UNCHANGED extVars

\* AfterApproval with the executor invoked whatever the callback returned.
AfterApprovalMutant(t, approved, req) ==
    /\ approvals' = [approvals EXCEPT ![t] =
           Append(@, [id |-> CurrentCall(t).id, approved |-> approved, req |-> req])]
    /\ ExecuteCall(t, events[t], "approved")

\* The continuation once onPermissionRequest has returned approved (for the
\* request req of the bridge, 0 when the callback is not the bridge's).
AfterApproval(t, approved, req) ==
    /\ approvals' = [approvals EXCEPT ![t] =
           Append(@, [id |-> CurrentCall(t).id, approved |-> approved, req |-> req])]
    /\ IF approved
       THEN ExecuteCall(t, events[t], "approved")
       ELSE /\ FinishCall(t, events[t], ToolResult(FALSE, "User denied permission"), TRUE)
            /\ UNCHANGED execLog

\* After tool_pending: a caller-supplied callback answers true or false.
ApprovalCallback(t) ==
    /\ pc[t] = "pending"
    /\ input[t].onPermissionRequest = "stub"
    /\ \E approved \in BOOLEAN : AfterApproval(t, approved, 0)
    /\ UNCHANGED << maxIterations, auditLog, turnSet, toolKinds, llmBudget,
                    nextCallId, textCount, input, fullResponse, handler,
                    requests, handlerCall, pendingRequests, lastNoop, reqOf,
                    routerPc, sessions, replies, allowedUsers >>
    /\ UNCHANGED extVars

(***************************************************************************)
(* PermissionBridge (utils/permission-bridge.ts).                          *)
(***************************************************************************)

ReqIds == 1..Len(requests)

\* RequestResolve settling every pending request with the decision.
RequestResolveAll(id, d) ==
    /\ pendingRequests' = {}
    /\ requests' = [i \in DOMAIN requests |->
           [requests[i] EXCEPT !.promise = IF @ = "pending" THEN d ELSE @]]

\* RequestResolve leaving the id in the pending map.
RequestResolveKeep(id, d) ==
    /\ pendingRequests' = pendingRequests
    /\ requests' = [requests EXCEPT ![id].promise = IF @ = "pending" THEN d ELSE @]

\* PendingRequest.resolve, the closure built in request(): the id leaves the
\* pending map and the promise is resolved; resolving a promise that is
\* already settled changes nothing.
RequestResolve(id, d) ==
    /\ pendingRequests' = pendingRequests \ {id}
    /\ requests' = [requests EXCEPT ![id].promise = IF @ = "pending" THEN d ELSE @]

\* RequestDenied storing the request and waiting although no handler will
\* ever see it.
RequestStored(t) ==
    /\ requests' = Append(requests,
           [turn |-> t, userId |-> input[t].session.userId, promise |-> "pending"])
    /\ handlerCall' = Append(handlerCall, "none")
    /\ pendingRequests' = pendingRequests \cup {Len(requests) + 1}
    /\ reqOf' = [reqOf EXCEPT ![t] = Len(requests) + 1]
    /\ pc' = [pc EXCEPT ![t] = "awaiting"]
    /\ UNCHANGED << approvals, execLog, events, roundResults, tcIdx,
                    lastToolResults, iteration, pendingToolCalls, chatLog >>

\* request() without a registered handler: 'deny' at once, so the callback
\* of callAgent returns false.
RequestDenied(t) ==
    /\ AfterApproval(t, FALSE, 0)
    /\ UNCHANGED << requests, handlerCall, pendingRequests, reqOf >>

\* request() with a handler: the request gets a fresh id, is stored in the
\* pending map and handed to the handler; the caller waits for its promise.
RequestPending(t) ==
    /\ requests' = Append(requests,
           [turn |-> t, userId |-> input[t].session.userId, promise |-> "pending"])
    /\ handlerCall' = Append(handlerCall, "running")
    /\ pendingRequests' = pendingRequests \cup {Len(requests) + 1}
    /\ reqOf' = [reqOf EXCEPT ![t] = Len(requests) + 1]
    /\ pc' = [pc EXCEPT ![t] = "awaiting"]
    /\ UNCHANGED << approvals, execLog, events, roundResults, tcIdx,
                    lastToolResults, iteration, pendingToolCalls, chatLog >>

\* The callback callAgent hands to the gateway: bridge.request(prompt).  The
\* request context is present: the router runs the turn inside runWithContext.
BridgeRequest(t) ==
    /\ pc[t] = "pending"
    /\ input[t].onPermissionRequest = "bridge"
    /\ IF ~handler THEN RequestDenied(t) ELSE RequestPending(t)
    /\ UNCHANGED << maxIterations, auditLog, turnSet, toolKinds, llmBudget,
                    nextCallId, textCount, input, fullResponse, handler,
                    lastNoop, routerPc, sessions, replies, allowedUsers >>
    /\ UNCHANGED extVars

\* The handler's promise resolves after the channel showed the prompt (with
\* the request id in its buttons) to the user.
HandlerDelivers(id) ==
    /\ id \in ReqIds
    /\ handlerCall[id] = "running"
    /\ handlerCall' = [handlerCall EXCEPT ![id] = "delivered"]
    /\ UNCHANGED << maxIterations, auditLog, turnSet, toolKinds, llmBudget,
                    nextCallId, textCount, pc, input, iteration,
                    pendingToolCalls, tcIdx, fullResponse, lastToolResults,
                    roundResults, events, chatLog, execLog, approvals,
                    handler, requests, pendingRequests, lastNoop, reqOf,
                    routerPc, sessions, replies, allowedUsers >>
    /\ UNCHANGED extVars

\* The handler's promise resolves without a prompt having reached the user:
\* no channel for the request, or the channel caught its own send error.
HandlerReturnsUndelivered(id) ==
    /\ id \in ReqIds
    /\ handlerCall[id] = "running"
    /\ handlerCall' = [handlerCall EXCEPT ![id] = "returned"]
    /\ UNCHANGED << maxIterations, auditLog, turnSet, toolKinds, llmBudget,
                    nextCallId, textCount, pc, input, iteration,
                    pendingToolCalls, tcIdx, fullResponse, lastToolResults,
                    roundResults, events, chatLog, execLog, approvals,
                    handler, requests, pendingRequests, lastNoop, reqOf,
                    routerPc, sessions, replies, allowedUsers >>
    /\ UNCHANGED extVars

\* The handler's promise rejects: the catch in request() resolves 'deny'.
HandlerRejects(id) ==
    /\ id \in ReqIds
    /\ handlerCall[id] = "running"
    /\ handlerCall' = [handlerCall EXCEPT ![id] = "rejected"]
    /\ RequestResolve(id, "deny")
    /\ UNCHANGED << maxIterations, auditLog, turnSet, toolKinds, llmBudget,
                    nextCallId, textCount, pc, input, iteration,
                    pendingToolCalls, tcIdx, fullResponse, lastToolResults,
                    roundResults, events, chatLog, execLog, approvals,
                    handler, lastNoop, reqOf, routerPc, sessions, replies,
                    allowedUsers >>
    /\ UNCHANGED extVars

\* resolveRequest(id, decision), called by a channel when the user answers a
\* prompt that was delivered.
ResolveRequest(id, d) ==
    /\ id \in ReqIds
    /\ handlerCall[id] = "delivered"
    /\ IF id \in pendingRequests
       THEN /\ RequestResolve(id, d)
            /\ UNCHANGED lastNoop
       ELSE /\ lastNoop' = id
            /\ UNCHANGED << requests, pendingRequests >>
    /\ UNCHANGED << maxIterations, auditLog, turnSet, toolKinds, llmBudget,
                    nextCallId, textCount, pc, input, iteration,
                    pendingToolCalls, tcIdx, fullResponse, lastToolResults,
                    roundResults, events, chatLog, execLog, approvals,
                    handler, handlerCall, reqOf, routerPc, sessions, replies,
                    allowedUsers >>
    /\ UNCHANGED extVars

\* The promise of the awaited request is settled: the callback returns
\* decision === 'allow' and handleMessage goes on.
ApprovalResolved(t) ==
    /\ pc[t] = "awaiting"
    /\ requests[reqOf[t]].promise # "pending"
    /\ AfterApproval(t, requests[reqOf[t]].promise = "allow", reqOf[t])
    /\ UNCHANGED << maxIterations, auditLog, turnSet, toolKinds, llmBudget,
                    nextCallId, textCount, input, fullResponse, handler,
                    requests, handlerCall, pendingRequests, lastNoop, reqOf,
                    routerPc, sessions, replies, allowedUsers >>
    /\ UNCHANGED extVars

\* registerHandler, called by BotManager.startAll.
RegisterHandler ==
    /\ ~handler
    /\ handler' = TRUE
    /\ UNCHANGED << maxIterations, auditLog, turnSet, toolKinds, llmBudget,
                    nextCallId, textCount, pc, input, iteration,
                    pendingToolCalls, tcIdx, fullResponse, lastToolResults,
                    roundResults, events, chatLog, execLog, approvals,
                    requests, handlerCall, pendingRequests, lastNoop, reqOf,
                    routerPc, sessions, replies, allowedUsers >>
    /\ UNCHANGED extVars

(***************************************************************************)
(* Session store (orchestrator/session.ts).  The map is sessionKeys (the   *)
(* keys it holds), sessions (the history of each key, empty for a key the  *)
(* map does not hold) and lastActivity.  The router uses the key           *)
(* userId:userId, so a key is a user.                                      *)
(***************************************************************************)

MAX_HISTORY == 20

SESSION_TIMEOUT == 30 * 60 * 1000

\* getSession: the session of the key, created with an empty history when
\* the map has none; lastActivity becomes the time of the call.
GetSession(u) ==
    /\ sessionKeys' = sessionKeys \cup {u}
    /\ sessionId' = [sessionId EXCEPT ![u] = IF u \in sessionKeys THEN @ ELSE @ + 1]
    /\ lastActivity' = [lastActivity EXCEPT ![u] = now]

\* Array.prototype.slice(-n)
SliceLast(s, n) == IF Len(s) > n THEN SubSeq(s, Len(s) - n + 1, Len(s)) ELSE s

\* SessionExpired removing a session whose age has just reached the timeout.
SessionExpiredAtTimeout(last, t) == t - last >= SESSION_TIMEOUT

\* The test of cleanupExpiredSessions: now - session.lastActivity > SESSION_TIMEOUT
SessionExpired(last, t) == t - last > SESSION_TIMEOUT

(***************************************************************************)
(* Router (orchestrator/router.ts), callAgent and the session store.       *)
(***************************************************************************)

\* initAgentClient builds the gateway with maxIterations: 10.
AppMaxIterations == 10

\* The channels of the BotManager.
Channels == {"telegram", "feishu"}

\* getAllowedUsers(channelId = 'telegram')
getAllowedUsers(channelId) == allowedUsers[channelId]

\* isUserAllowed: an empty whitelist allows everyone.
IsUserAllowed(userId, list) == list = {} \/ userId \in list

\* The check a channel makes itself before it calls the message handler: the
\* Telegram channel asks isUserAllowed(userId, this.id), the Feishu channel
\* logs the message as allowed.
ChannelAdmits(channelId, userId) ==
    channelId = "telegram" => IsUserAllowed(userId, getAllowedUsers(channelId))

\* The router's check, isUserAllowed(userId): the channel id is left to its
\* default.
RouterAdmits(userId) == IsUserAllowed(userId, getAllowedUsers("telegram"))

\* No message of the turn has arrived.
NoArrival == [userId |-> "", channelId |-> ""]

UserMessage(t) == [role |-> "user", content |-> MessageOf(t)]

AssistantMessage(text) == [role |-> "assistant", content |-> text]

\* handleMessage is over for the caller of the gateway: callAgent returned.
TurnOver(t) == pc[t] \in {"done", "error", "crashed"}

\* What callAgent returns: reply with the full response on done, error on an
\* error event and on an exception thrown by the event stream.
AgentResponse(t) ==
    IF pc[t] = "done"
    THEN [action |-> "reply", message |-> fullResponse[t]]
    ELSE [action |-> "error", message |-> <<"error">>]

\* A message arrives on a started channel and is handled up to the point
\* where callAgent waits for the provider: the channel's own check, the
\* message handler (router handleMessage) with its whitelist check,
\* getSession(userId, userId), push of the user message, and
\* gateway.handleMessage with the channel id as chat id.  Messages are
\* numbered as they arrive.
RouterHandleMessage(t) ==
    /\ t \in turnSet
    /\ routerPc[t] = "idle"
    /\ \A s \in Turns : s < t => routerPc[s] # "idle"
    /\ \E u \in (IF t = 1 THEN {"U1"} ELSE Users) : \E c \in channels :
          /\ arrival' = [arrival EXCEPT ![t] = [userId |-> u, channelId |-> c]]
          /\ IF ~(ChannelAdmits(c, u) /\ RouterAdmits(u))
             THEN /\ replies' = [replies EXCEPT ![t] = Append(@, "no permission")]
                  /\ routerPc' = [routerPc EXCEPT ![t] = "finished"]
                  /\ UNCHANGED << sessions, input, pc, chatLog, events,
                                  sessionKeys, lastActivity, sessionId, heldId >>
             ELSE /\ GetSession(u)
                  /\ heldId' = [heldId EXCEPT ![t] = sessionId'[u]]
                  /\ sessions' = [sessions EXCEPT ![u] = Append(@, UserMessage(t))]
                  /\ routerPc' = [routerPc EXCEPT ![t] = "inAgent"]
                  /\ StartTurn(t, MkSession(u, c, {}, FALSE, {}), "bridge")
                  /\ UNCHANGED replies
    /\ UNCHANGED << maxIterations, auditLog, turnSet, toolKinds, llmBudget,
                    nextCallId, textCount, iteration, pendingToolCalls,
                    tcIdx, fullResponse, lastToolResults, roundResults,
                    execLog, approvals, handler, requests, handlerCall,
                    pendingRequests, lastNoop, reqOf, allowedUsers >>
    /\ UNCHANGED << policyVars, auditCalls, storeVars, keyVars, adapterVars,
                    registryVars, llmMaxIterations, channels >>

\* The Session object the handler of turn t got is still the one the map
\* holds for its user: no sweep has deleted it since.
HoldsMappedSession(t) ==
    LET u == input[t].session.userId
    IN  u \in sessionKeys /\ sessionId[u] = heldId[t]

\* RouterReply pushing an assistant message for every response that is not
\* an error, an empty one too.
RouterReplyStoringEmpty(t) ==
    /\ routerPc[t] = "inAgent"
    /\ TurnOver(t)
    /\ LET r == AgentResponse(t)
           u == input[t].session.userId
           kind == IF r.action = "error" THEN "error"
                   ELSE IF r.message # << >> THEN "reply" ELSE "no content"
       IN  /\ replies' = [replies EXCEPT ![t] = Append(@, kind)]
           /\ routerPc' = [routerPc EXCEPT ![t] = "finished"]
           /\ sessions' = [sessions EXCEPT ![u] =
                  IF kind # "error" /\ HoldsMappedSession(t)
                  THEN Append(@, AssistantMessage(r.message)) ELSE @]
    /\ UNCHANGED << maxIterations, auditLog, turnSet, toolKinds, llmBudget,
                    nextCallId, textCount, pc, input, iteration,
                    pendingToolCalls, tcIdx, fullResponse, lastToolResults,
                    roundResults, events, chatLog, execLog, approvals,
                    handler, requests, handlerCall, pendingRequests,
                    lastNoop, reqOf, allowedUsers >>
    /\ UNCHANGED extVars

\* RouterReply pushing the text received so far when the turn failed.
RouterReplyStoringPartial(t) ==
    /\ routerPc[t] = "inAgent"
    /\ TurnOver(t)
    /\ LET r == AgentResponse(t)
           u == input[t].session.userId
           kind == IF r.action = "error" THEN "error"
                   ELSE IF r.message # << >> THEN "reply" ELSE "no content"
       IN  /\ replies' = [replies EXCEPT ![t] = Append(@, kind)]
           /\ routerPc' = [routerPc EXCEPT ![t] = "finished"]
           /\ sessions' = [sessions EXCEPT ![u] =
                  IF HoldsMappedSession(t) /\ (kind = "reply" \/ (kind = "error" /\ fullResponse[t] # << >>))
                  THEN Append(@, AssistantMessage(fullResponse[t])) ELSE @]
    /\ UNCHANGED << maxIterations, auditLog, turnSet, toolKinds, llmBudget,
                    nextCallId, textCount, pc, input, iteration,
                    pendingToolCalls, tcIdx, fullResponse, lastToolResults,
                    roundResults, events, chatLog, execLog, approvals,
                    handler, requests, handlerCall, pendingRequests,
                    lastNoop, reqOf, allowedUsers >>
    /\ UNCHANGED extVars

\* callAgent has returned: the reply (or the error, or the placeholder) is
\* sent; the assistant message is pushed only after a reply was sent, onto
\* the Session object the handler got at its start (a push onto an object
\* the map no longer holds changes no history of the store).
RouterReply(t) ==
    /\ routerPc[t] = "inAgent"
    /\ TurnOver(t)
    /\ LET r == AgentResponse(t)
           u == input[t].session.userId
           kind == IF r.action = "error" THEN "error"
                   ELSE IF r.message # << >> THEN "reply" ELSE "no content"
       IN  /\ replies' = [replies EXCEPT ![t] = Append(@, kind)]
           /\ routerPc' = [routerPc EXCEPT ![t] = "finished"]
           /\ sessions' = [sessions EXCEPT ![u] =
                  IF kind = "reply" /\ HoldsMappedSession(t)
                  THEN Append(@, AssistantMessage(r.message)) ELSE @]
    /\ UNCHANGED << maxIterations, auditLog, turnSet, toolKinds, llmBudget,
                    nextCallId, textCount, pc, input, iteration,
                    pendingToolCalls, tcIdx, fullResponse, lastToolResults,
                    roundResults, events, chatLog, execLog, approvals,
                    handler, requests, handlerCall, pendingRequests,
                    lastNoop, reqOf, allowedUsers >>
    /\ UNCHANGED extVars

(***************************************************************************)
(* The session store as the router, the channels and its exported          *)
(* functions use it.                                                       *)
(***************************************************************************)

\* The state of a turn of the gateway, apart from the audit log.
turnVars ==
    << maxIterations, turnSet, toolKinds, llmBudget, nextCallId, textCount,
       pc, input, iteration, pendingToolCalls, tcIdx, fullResponse,
       lastToolResults, roundResults, events, chatLog, execLog, approvals >>

\* What the session store leaves alone.
notStoreVars ==
    << turnVars, auditLog, bridgeVars, routerPc, replies, allowedUsers,
       policyVars, auditCalls, storeCfg, heldId, unitVars >>

\* The steps the clock makes between two events: a millisecond, or the
\* whole session timeout.
TickSteps == {1, SESSION_TIMEOUT}

\* Router handleMessage as the session store sees it (lines 147 to 150):
\* getSession(userId, userId) and the push of the user message.  The
\* messages of a run are numbered.
HandledUserMessage(u) ==
    /\ u \in storeCfg.users
    /\ ~holding[u]
    /\ pushCount < storeCfg.maxPushes
    /\ GetSession(u)
    /\ sessions' = [sessions EXCEPT ![u] = Append(@, UserMessage(pushCount + 1))]
    /\ pushCount' = pushCount + 1
    /\ holding' = [holding EXCEPT ![u] = TRUE]
    /\ UNCHANGED << now, tickCount, notStoreVars >>

\* Router handleMessage, line 162: after the reply was sent the assistant
\* message is pushed onto the session the handler got at its start.
HandledReply(u) ==
    /\ holding[u]
    /\ pushCount < storeCfg.maxPushes
    /\ sessions' = [sessions EXCEPT ![u] =
           Append(@, AssistantMessage(<<"reply", pushCount + 1>>))]
    /\ pushCount' = pushCount + 1
    /\ holding' = [holding EXCEPT ![u] = FALSE]
    /\ UNCHANGED << now, tickCount, sessionKeys, lastActivity, sessionId, notStoreVars >>

\* Router handleMessage, lines 163 to 167: callAgent returned an error or no
\* content, nothing is pushed.
HandledNoReply(u) ==
    /\ holding[u]
    /\ holding' = [holding EXCEPT ![u] = FALSE]
    /\ UNCHANGED << now, tickCount, sessionKeys, lastActivity, sessionId, sessions,
                    pushCount, notStoreVars >>

\* What addMessage leaves in session.history: the message is pushed and a
\* history longer than MAX_HISTORY is cut to its last MAX_HISTORY messages.
AddMessageHistory(history, message) ==
    LET pushed == Append(history, message)
    IN  IF Len(pushed) > MAX_HISTORY THEN SliceLast(pushed, MAX_HISTORY) ELSE pushed

\* addMessage(userId, chatId, message)
AddMessage(u) ==
    /\ u \in storeCfg.users
    /\ pushCount < storeCfg.maxPushes
    /\ GetSession(u)
    /\ sessions' = [sessions EXCEPT ![u] =
           AddMessageHistory(@, UserMessage(pushCount + 1))]
    /\ pushCount' = pushCount + 1
    /\ UNCHANGED << now, tickCount, holding, notStoreVars >>

\* getHistory(userId, chatId): a get that changes no history.
GetHistory(u) ==
    /\ u \in storeCfg.users
    /\ GetSession(u)
    /\ UNCHANGED << now, tickCount, holding, sessions, pushCount, notStoreVars >>

\* The /clear command of a channel: getSession, then session.history = [].
ClearCommand(u) ==
    /\ u \in storeCfg.users
    /\ GetSession(u)
    /\ sessions' = [sessions EXCEPT ![u] = << >>]
    /\ UNCHANGED << now, tickCount, holding, pushCount, notStoreVars >>

\* CleanupExpiredSessions settling the pending permission requests of the
\* users whose sessions it deletes with 'deny'.
CleanupExpiredSessionsCancelling ==
    LET expired == { u \in sessionKeys : SessionExpired(lastActivity[u], now) }
        cancelled == { id \in pendingRequests : requests[id].userId \in expired }
    IN  /\ sessionKeys' = sessionKeys \ expired
        /\ sessions' = [u \in Users |-> IF u \in expired THEN << >> ELSE sessions[u]]
        /\ lastActivity' = [u \in Users |-> IF u \in expired THEN 0 ELSE lastActivity[u]]
        /\ holding' = [u \in Users |-> IF u \in expired THEN FALSE ELSE holding[u]]
        /\ pendingRequests' = pendingRequests \ cancelled
        /\ requests' = [i \in DOMAIN requests |->
               IF i \in cancelled THEN [requests[i] EXCEPT !.promise = "deny"]
               ELSE requests[i]]
        /\ UNCHANGED << now, tickCount, pushCount, sessionId, turnVars,
                        auditLog, handler, handlerCall, lastNoop, reqOf,
                        routerPc, replies, allowedUsers, policyVars,
                        auditCalls, storeCfg, heldId, unitVars >>

\* cleanupExpiredSessions, run by the interval timer: every expired session
\* is deleted from the map.  A handler that holds a deleted session goes on
\* with an object the map no longer has.
CleanupExpiredSessions ==
    LET expired == { u \in sessionKeys : SessionExpired(lastActivity[u], now) }
    IN  /\ sessionKeys' = sessionKeys \ expired
        /\ sessions' = [u \in Users |-> IF u \in expired THEN << >> ELSE sessions[u]]
        /\ lastActivity' = [u \in Users |-> IF u \in expired THEN 0 ELSE lastActivity[u]]
        /\ holding' = [u \in Users |-> IF u \in expired THEN FALSE ELSE holding[u]]
        /\ UNCHANGED << now, tickCount, pushCount, sessionId, notStoreVars >>

\* Time passes.
Tick(d) ==
    /\ tickCount < MaxTicks
    /\ now' = now + d
    /\ tickCount' = tickCount + 1
    /\ UNCHANGED << sessionKeys, lastActivity, sessionId, holding, sessions, pushCount,
                    notStoreVars >>

(***************************************************************************)
(* The session store called with any pair of ids: the map by its keys.     *)
(***************************************************************************)

\* The user and chat ids of a run: strings over a, b and the colon.
IdChoices == { <<"a">>, <<"a", ":", "b">>, <<"b", ":", "a">> }

\* getSessionKey: the template literal userId:chatId
getSessionKey(userId, chatId) == userId \o <<":">> \o chatId

\* The message a caller adds for the pair: its content names the pair.
PairMessage(userId, chatId) == [role |-> "user", content |-> << userId, chatId >>]

\* The Session object getSession returns for the pair before its
\* lastActivity is set: the one the map holds for the key, or a new one.
SessionOfPair(userId, chatId) ==
    LET key == getSessionKey(userId, chatId)
    IN  IF key \in DOMAIN sessionsByKey THEN sessionsByKey[key]
        ELSE [userId |-> userId, chatId |-> chatId, history |-> << >>,
              lastActivity |-> now]

\* The map after getSession(userId, chatId) and an assignment of history.
MapWithHistory(userId, chatId, history) ==
    LET key == getSessionKey(userId, chatId)
    IN  [k \in DOMAIN sessionsByKey \cup {key} |->
            IF k = key
            THEN [SessionOfPair(userId, chatId) EXCEPT
                     !.history = history, !.lastActivity = now]
            ELSE sessionsByKey[k]]

RECURSIVE StoredMessages(_)
\* The number of messages in the histories of the keys ks.
StoredMessages(ks) ==
    IF ks = {} THEN 0
    ELSE LET k == CHOOSE x \in ks : TRUE
         IN  Len(sessionsByKey[k].history) + StoredMessages(ks \ {k})

\* What the calls by pair leave alone.
notKeyVars ==
    << gatewayVars, bridgeVars, routerVars, policyVars, auditCalls, storeVars,
       sessionKeys, lastActivity, sessionId, heldId, adapterVars, registryVars,
       configVars >>

\* addMessage(userId, chatId, message) with the message of the pair.
AddMessageForPair(userId, chatId) ==
    /\ StoredMessages(DOMAIN sessionsByKey) < MaxKeyedMessages
    /\ sessionsByKey' = MapWithHistory(userId, chatId,
           AddMessageHistory(SessionOfPair(userId, chatId).history,
                             PairMessage(userId, chatId)))
    /\ UNCHANGED << gotHistory, notKeyVars >>

\* getHistory(userId, chatId)
GetHistoryForPair(userId, chatId) ==
    /\ sessionsByKey' = MapWithHistory(userId, chatId,
           SessionOfPair(userId, chatId).history)
    /\ gotHistory' = [called |-> TRUE, userId |-> userId, chatId |-> chatId,
                      history |-> SessionOfPair(userId, chatId).history]
    /\ UNCHANGED notKeyVars

(***************************************************************************)
(* LLM format adapters (llm/openai-format.ts, llm/claude-format.ts,        *)
(* llm/gemini-format.ts): the LLMEvents chat() yields for a response.      *)
(***************************************************************************)

\* The adapters: OpenAI chat completions, OpenAI responses, Claude, Gemini.
AdapterKinds == {"completions", "responses", "claude", "gemini"}

\* No chat() call is followed in the run.
NoAdapter == "none"

\* Most frames chat() reads from one response stream.
MaxFrames == 3

\* Two fragments of argument text: together they are the JSON text of an
\* object with the command rm x, each alone is not JSON.
HeadFragment == "{ command :"

TailFragment == "rm x }"

EmptyObject == MkArgs("object", Undefined, Undefined, Undefined)

\* JSON.parse(text): the value, or that it threw.
ParseJson(text) ==
    IF text = <<HeadFragment, TailFragment>>
    THEN [ok |-> TRUE, value |-> MkArgs("object", S_rm, Undefined, Undefined)]
    ELSE [ok |-> FALSE, value |-> NoArgs]

\* An LLMEvent: text is the content of a text_delta, the argsFragment of a
\* tool_call_delta, the message of an error.
LlmEv(type, id, name, args, text) ==
    [type |-> type, id |-> id, name |-> name, args |-> args, text |-> text]

LlmDoneEv == LlmEv("done", "", << >>, NoArgs, << >>)

LlmErrorEvent(message) == LlmEv("error", "", << >>, NoArgs, message)

LlmTextEv(content) == LlmEv("text_delta", "", << >>, NoArgs, content)

\* One data: line of the stream.  type "malformed" is a line whose payload
\* JSON.parse rejects; id "" and name << >> stand for an absent field.
Frame(type, index, id, name, text, args) ==
    [type |-> type, index |-> index, id |-> id, name |-> name, text |-> text,
     args |-> args]

MalformedFrame == Frame("malformed", 0, "", << >>, << >>, NoArgs)

TextFrame(content) == Frame("text", 0, "", << >>, content, NoArgs)

\* StreamParserState when the stream is opened; pending is pendingToolCalls
\* in insertion order (currentToolUse for Claude), items is responsesItems,
\* emitted is emittedCallIds.
NoParserState == [pending |-> << >>, items |-> << >>, emitted |-> {}]

\* What a step of the parser returns: the state and the events yielded.
Parsed(state, out) == [state |-> state, out |-> out]

\* The tool call that was accumulated, once it is complete: the adapter
\* parses the argument text (the empty text is {}), and yields an error
\* event instead of the call when JSON.parse throws.
ParsedCall(p) ==
    IF p.args = << >> THEN LlmEv("tool_call", p.id, p.name, EmptyObject, << >>)
    ELSE IF ParseJson(p.args).ok
    THEN LlmEv("tool_call", p.id, p.name, ParseJson(p.args).value, << >>)
    ELSE LlmErrorEvent(<<"Failed to parse tool args">> \o p.args)

\* parseChatCompletionsEvent for a chunk with one choice that carries a
\* content delta ("text"), a tool call delta ("tool_delta") or a
\* finish_reason tool_calls / stop ("finish").
CompletionsStep(st, f) ==
    IF f.type = "text"
    THEN Parsed(st, IF f.text # << >> THEN <<LlmTextEv(f.text)>> ELSE << >>)
    ELSE IF f.type = "tool_delta"
    THEN LET known == \E i \in 1..Len(st.pending) : st.pending[i].index = f.index
             pending1 == IF known THEN st.pending
                         ELSE Append(st.pending, [index |-> f.index, id |-> "",
                                                  name |-> << >>, args |-> << >>])
             k == CHOOSE i \in 1..Len(pending1) : pending1[i].index = f.index
             p == [pending1[k] EXCEPT
                      !.id = IF f.id # "" THEN f.id ELSE @,
                      !.name = IF f.name # << >> THEN f.name ELSE @,
                      !.args = @ \o f.text]
         IN Parsed([st EXCEPT !.pending = [pending1 EXCEPT ![k] = p]],
                   IF f.text # << >>
                   THEN <<LlmEv("tool_call_delta", p.id, p.name, NoArgs, f.text)>>
                   ELSE << >>)
    ELSE IF f.type = "finish"
    THEN LET complete == SelectSeq(st.pending,
                             LAMBDA p : p.id # "" /\ p.name # << >>)
         IN Parsed([st EXCEPT !.pending = << >>],
                   [i \in 1..Len(complete) |-> ParsedCall(complete[i])])
    ELSE Parsed(st, << >>)

\* emitFunctionCall(callId, name, argsStr): argument text JSON.parse rejects
\* is replaced by {}.
emitFunctionCall(callId, name, argsStr) ==
    LET args == IF argsStr # << >> /\ ParseJson(argsStr).ok
                THEN ParseJson(argsStr).value ELSE EmptyObject
    IN IF name # << >> THEN <<LlmEv("tool_call", callId, name, args, << >>)>>
       ELSE <<LlmErrorEvent(<<"Function call missing name">>)>>

\* The id made up for a call that came without one (call_<Date.now()>), for
\* the frames of a stream that are read within one millisecond.
GeneratedCallId == "call_now"

\* The id of an output item as text; item 0 stands for a frame without one.
ItemIdText(item) == IF item = 1 THEN "fc_1" ELSE IF item = 2 THEN "fc_2" ELSE "fc_3"

\* responsesItems.get(item): the cached call id and name, "" and << >>
\* when nothing is cached for the item.
CachedItem(st, item) ==
    IF \E i \in 1..Len(st.items) : st.items[i].item = item
    THEN LET k == CHOOSE i \in 1..Len(st.items) : st.items[i].item = item
         IN st.items[k]
    ELSE [item |-> item, callId |-> "", name |-> << >>]

\* parseResponsesEvent for response.output_text.delta ("text"),
\* response.output_item.added of a function call ("item_added"),
\* response.function_call_arguments.done ("args_done") and
\* response.output_item.done of a function call ("item_done").  The index of
\* the frame is the item's id, id is the call_id and name the name the
\* event carries.
ResponsesStep(st, f) ==
    LET cached == CachedItem(st, f.index)
    IN
    IF f.type = "text"
    THEN Parsed(st, IF f.text # << >> THEN <<LlmTextEv(f.text)>> ELSE << >>)
    ELSE IF f.type = "item_added"
    THEN IF f.index # 0 /\ f.id # "" /\ f.name # << >>
         THEN Parsed([st EXCEPT !.items =
                        Append(SelectSeq(@, LAMBDA c : c.item # f.index),
                               [item |-> f.index, callId |-> f.id, name |-> f.name])],
                     << >>)
         ELSE Parsed(st, << >>)
    ELSE IF f.type = "args_done"
    THEN LET id == IF cached.callId # "" THEN cached.callId
                   ELSE IF f.id # "" THEN f.id ELSE GeneratedCallId
             name == IF cached.name # << >> THEN cached.name ELSE f.name
         IN IF id \in st.emitted THEN Parsed(st, << >>)
            ELSE Parsed([st EXCEPT !.emitted = @ \cup {id}],
                        emitFunctionCall(id, name, f.text))
    ELSE IF f.type = "item_done"
    THEN LET id == IF f.id # "" THEN f.id
                   ELSE IF cached.callId # "" THEN cached.callId
                   ELSE IF f.index # 0 THEN ItemIdText(f.index)
                   ELSE GeneratedCallId
             name == IF f.name # << >> THEN f.name ELSE cached.name
         IN IF id \in st.emitted THEN Parsed(st, << >>)
            ELSE Parsed([st EXCEPT !.emitted = @ \cup {id}],
                        emitFunctionCall(id, name, f.text))
    ELSE Parsed(st, << >>)

\* The switch of ClaudeFormatAdapter.chat over the event type:
\* content_block_start of a tool_use ("block_start"), content_block_delta
\* with text ("text") or partial_json ("json"), content_block_stop
\* ("block_stop").
ClaudeStep(st, f) ==
    IF f.type = "block_start"
    THEN Parsed([st EXCEPT !.pending =
                    <<[index |-> 0, id |-> f.id, name |-> f.name, args |-> << >>]>>],
                << >>)
    ELSE IF f.type = "text"
    THEN Parsed(st, IF f.text # << >> THEN <<LlmTextEv(f.text)>> ELSE << >>)
    ELSE IF f.type = "json"
    THEN IF f.text # << >> /\ st.pending # << >>
         THEN Parsed([st EXCEPT !.pending[1].args = @ \o f.text],
                     <<LlmEv("tool_call_delta", st.pending[1].id,
                             st.pending[1].name, NoArgs, f.text)>>)
         ELSE Parsed(st, << >>)
    ELSE IF f.type = "block_stop"
    THEN IF st.pending # << >>
         THEN Parsed([st EXCEPT !.pending = << >>], <<ParsedCall(st.pending[1])>>)
         ELSE Parsed(st, << >>)
    ELSE Parsed(st, << >>)

\* The id GeminiFormatAdapter gives a function call (call_<time>_<random>).
GeminiCallId == "call_"

\* GeminiFormatAdapter.chat for a chunk with one candidate of one part: a
\* text part ("text", the empty text included) or a functionCall part
\* ("function_call"), whose args are passed on as they are.
GeminiStep(st, f) ==
    IF f.type = "text" THEN Parsed(st, <<LlmTextEv(f.text)>>)
    ELSE IF f.type = "function_call"
    THEN Parsed(st, <<LlmEv("tool_call", GeminiCallId, f.name, f.args, << >>)>>)
    ELSE Parsed(st, << >>)

\* What the adapter of a kind does with a frame JSON.parse accepted.
ParseEvent(kind, st, f) ==
    IF kind = "completions" THEN CompletionsStep(st, f)
    ELSE IF kind = "responses" THEN ResponsesStep(st, f)
    ELSE IF kind = "claude" THEN ClaudeStep(st, f)
    ELSE GeminiStep(st, f)

\* A loop body that lets the exception of a frame reach the catch block of
\* chat().
ReadFrameFailing(kind, st, f) ==
    IF f.type = "malformed"
    THEN [state |-> st, out |-> <<LlmErrorEvent(<<"Unexpected token">>)>>, ended |-> TRUE]
    ELSE [state |-> ParseEvent(kind, st, f).state,
          out |-> ParseEvent(kind, st, f).out, ended |-> FALSE]

\* The body of the loop over the lines of the stream: the exception of a
\* frame that cannot be parsed is caught and logged, and the loop goes on.
ReadFrame(kind, st, f) ==
    IF f.type = "malformed"
    THEN [state |-> st, out |-> << >>, ended |-> FALSE]
    ELSE [state |-> ParseEvent(kind, st, f).state,
          out |-> ParseEvent(kind, st, f).out, ended |-> FALSE]

\* The loop over the lines of a stream, from a parser state.
RECURSIVE ReadFrames(_, _, _)
ReadFrames(kind, st, frames) ==
    IF frames = << >> THEN Parsed(st, << >>)
    ELSE LET r == ReadFrame(kind, st, Head(frames))
             rest == ReadFrames(kind, r.state, Tail(frames))
         IN Parsed(rest.state, r.out \o rest.out)

\* The frames a run draws from, per adapter.
FrameChoices(kind) ==
    IF kind = "completions"
    THEN { MalformedFrame, TextFrame(<<"hi">>),
           Frame("tool_delta", 0, "c1", S_bash, <<HeadFragment>>, NoArgs),
           Frame("tool_delta", 0, "", << >>, <<TailFragment>>, NoArgs),
           Frame("tool_delta", 1, "c2", S_read_file, << >>, NoArgs),
           Frame("finish", 0, "", << >>, << >>, NoArgs) }
    ELSE IF kind = "responses"
    THEN { MalformedFrame, TextFrame(<<"hi">>),
           Frame("item_added", 1, "c1", S_bash, << >>, NoArgs),
           Frame("args_done", 1, "", << >>, <<HeadFragment, TailFragment>>, NoArgs),
           Frame("args_done", 1, "", S_bash, <<HeadFragment, TailFragment>>, NoArgs),
           Frame("item_done", 1, "c1", S_bash, <<HeadFragment, TailFragment>>, NoArgs),
           Frame("args_done", 2, "c2", S_bash, <<HeadFragment>>, NoArgs),
           Frame("item_done", 3, "c3", << >>, << >>, NoArgs) }
    ELSE IF kind = "claude"
    THEN { MalformedFrame, TextFrame(<<"hi">>),
           Frame("block_start", 0, "c1", S_bash, << >>, NoArgs),
           Frame("json", 0, "", << >>, <<HeadFragment>>, NoArgs),
           Frame("json", 0, "", << >>, <<TailFragment>>, NoArgs),
           Frame("block_stop", 0, "", << >>, << >>, NoArgs) }
    ELSE { MalformedFrame, TextFrame(<<"hi">>), TextFrame(<< >>),
           Frame("function_call", 0, "", S_bash, << >>,
                 MkArgs("object", S_rm, Undefined, Undefined)),
           Frame("function_call", 0, "", S_bash, << >>, NoArgs) }

\* What chat() leaves alone.
notAdapterVars ==
    << gatewayVars, bridgeVars, routerVars, policyVars, auditCalls, storeVars,
       sessionKeys, lastActivity, sessionId, heldId, keyVars, registryVars,
       configVars >>

\* fetch rejects with a network failure: the catch block clears the timeout
\* and yields the error.
AdapterFetchThrows ==
    /\ adapterKind \in AdapterKinds
    /\ adapterPc = "idle"
    /\ adapterOut' = Append(adapterOut, LlmErrorEvent(<<"fetch failed">>))
    /\ adapterPc' = "ended"
    /\ adapterTimer' = "cleared"
    /\ UNCHANGED << adapterKind, adapterIn, adapterState, notAdapterVars >>

\* The timeout fires and aborts the controller: the pending fetch (or a
\* pending read, were the timeout still set) rejects with an AbortError, and
\* the catch block yields the error.
AdapterDeadline ==
    /\ adapterKind \in AdapterKinds
    /\ adapterTimer = "armed"
    /\ adapterPc \in {"idle", "streaming"}
    /\ adapterTimer' = "fired"
    /\ adapterOut' = Append(adapterOut, LlmErrorEvent(<<"Request timeout">>))
    /\ adapterPc' = "ended"
    /\ UNCHANGED << adapterKind, adapterIn, adapterState, notAdapterVars >>

\* The response is not ok, or has no body: one error event and return.
AdapterResponseRejected ==
    /\ adapterKind \in AdapterKinds
    /\ adapterPc = "idle"
    /\ \E message \in {"API error", "No response body"} :
          adapterOut' = Append(adapterOut, LlmErrorEvent(<<message>>))
    /\ adapterPc' = "ended"
    /\ adapterTimer' = "cleared"
    /\ UNCHANGED << adapterKind, adapterIn, adapterState, notAdapterVars >>

\* fetch resolves with a response that is ok and has a body: the timeout is
\* cleared and the stream is read.
AdapterResponseOk ==
    /\ adapterKind \in AdapterKinds
    /\ adapterPc = "idle"
    /\ adapterPc' = "streaming"
    /\ adapterState' = NoParserState
    /\ adapterTimer' = "cleared"
    /\ UNCHANGED << adapterKind, adapterIn, adapterOut, notAdapterVars >>

\* reader.read() delivers one more data: line.
AdapterFrame(f) ==
    /\ adapterPc = "streaming"
    /\ Len(adapterIn) < MaxFrames
    /\ f \in FrameChoices(adapterKind)
    /\ LET r == ReadFrame(adapterKind, adapterState, f)
       IN /\ adapterState' = r.state
          /\ adapterOut' = adapterOut \o r.out
          /\ adapterPc' = IF r.ended THEN "ended" ELSE "streaming"
    /\ adapterIn' = Append(adapterIn, f)
    /\ UNCHANGED << adapterKind, adapterTimer, notAdapterVars >>

\* reader.read() rejects: the catch block yields the error.
AdapterReadThrows ==
    /\ adapterPc = "streaming"
    /\ adapterOut' = Append(adapterOut, LlmErrorEvent(<<"read failed">>))
    /\ adapterPc' = "ended"
    /\ UNCHANGED << adapterKind, adapterIn, adapterState, adapterTimer, notAdapterVars >>

\* reader.read() reports the end of the stream: done is yielded.
AdapterStreamEnd ==
    /\ adapterPc = "streaming"
    /\ adapterOut' = Append(adapterOut, LlmDoneEv)
    /\ adapterPc' = "ended"
    /\ UNCHANGED << adapterKind, adapterIn, adapterState, adapterTimer, notAdapterVars >>

\* The adapters that accumulate the argument text of a tool call and parse it.
TextArgKinds == {"completions", "responses", "claude"}

\* The frames by which a provider streams one call of a tool with an argument
\* text that is not JSON.
MalformedCallFrames(kind, name) ==
    IF kind = "completions"
    THEN << Frame("tool_delta", 0, "c1", name, <<HeadFragment>>, NoArgs),
            Frame("finish", 0, "", << >>, << >>, NoArgs) >>
    ELSE IF kind = "claude"
    THEN << Frame("block_start", 0, "c1", name, << >>, NoArgs),
            Frame("json", 0, "", << >>, <<HeadFragment>>, NoArgs),
            Frame("block_stop", 0, "", << >>, << >>, NoArgs) >>
    ELSE << Frame("args_done", 0, "c1", name, <<HeadFragment>>, NoArgs) >>

\* The events of the adapter the switch of handleMessage has a case for
\* (tool_call_delta has none).
HandledEvents(evs) ==
    SelectSeq(evs, LAMBDA e : e.type \in {"text_delta", "tool_call", "error", "done"})

\* The tools the provider calls with malformed argument text.
MalformedCallNames == {S_bash, S_read_file, S_ghost}

\* The provider streams a tool call whose argument text is not JSON: the
\* gateway handles the event the adapter yields for it, an error event or a
\* tool_call.
LlmMalformedToolCall(t) ==
    /\ adapterKind \in TextArgKinds
    /\ pc[t] = "llm"
    /\ LlmEventCount < llmBudget
    /\ \E name \in MalformedCallNames :
          LET e == Head(HandledEvents(ReadFrames(adapterKind, NoParserState,
                            MalformedCallFrames(adapterKind, name)).out))
          IN  IF e.type = "error"
              THEN /\ events' = [events EXCEPT ![t] = Append(@, ErrorEv(e.text))]
                   /\ pc' = [pc EXCEPT ![t] = "error"]
                   /\ UNCHANGED << pendingToolCalls, nextCallId >>
              ELSE /\ pendingToolCalls' = [pendingToolCalls EXCEPT ![t] =
                          Append(@, [id |-> nextCallId[t], name |-> e.name,
                                     args |-> e.args, meta |-> Undefined])]
                   /\ nextCallId' = [nextCallId EXCEPT ![t] = @ + 1]
                   /\ UNCHANGED << events, pc >>
    /\ UNCHANGED << maxIterations, auditLog, turnSet, toolKinds, llmBudget,
                    textCount, input, iteration, tcIdx, fullResponse,
                    lastToolResults, roundResults, chatLog, execLog,
                    approvals, handler, requests, handlerCall,
                    pendingRequests, lastNoop, reqOf, routerPc, sessions,
                    replies, allowedUsers >>
    /\ UNCHANGED extVars

(***************************************************************************)
(* The policy engine called through its public methods.                    *)
(***************************************************************************)

S_Shell == <<"S","h","e","l","l">>

S_Grep == <<"G","r","e","p">>

S_tools == <<"t","o","o","l","s">>

S_del == <<"d","e","l"," ","x">>

\* Command texts that hold a second command after date: on a new line, after
\* ; | and &, in $( ), in backquotes, behind a redirection.
S_date_newline == <<"d","a","t","e","\n","r","m">>

S_date_semicolon == <<"d","a","t","e",";","r","m">>

S_date_pipe == <<"d","a","t","e"," ","|"," ","r","m">>

S_date_ampersand == <<"d","a","t","e"," ","&"," ","r","m">>

S_date_substitution == <<"d","a","t","e"," ","$","(","r","m",")">>

S_date_backquotes == <<"d","a","t","e"," ",Backtick,"r","m",Backtick>>

S_date_redirection == <<"d","a","t","e"," ",">","r","m">>

ChainedCommands ==
    { S_date_newline, S_date_semicolon, S_date_pipe, S_date_ampersand,
      S_date_substitution, S_date_backquotes, S_date_redirection }

\* Names of tool definitions a registry may hold.
PolicyToolNames == {S_bash, S_Shell, S_read_file, S_Grep, S_tools, S_write_file, S_ghost}

\* Argument values: objects with a command (dangerous, read-only, plain,
\* chained, not a string), with a path, with a file, without fields; null, undefined and
\* a number.
PolicyArgs ==
    { MkArgs("object", c, Undefined, Undefined) : c \in ChainedCommands } \cup
    { MkArgs("object", S_rm, Undefined, Undefined),
      MkArgs("object", S_date, Undefined, Undefined),
      MkArgs("object", S_del, Undefined, Undefined),
      MkArgs("object", NotAString, Undefined, Undefined),
      MkArgs("object", Undefined, S_path, Undefined),
      MkArgs("object", Undefined, Undefined, S_path),
      MkArgs("object", Undefined, Undefined, Undefined),
      MkArgs("null", Undefined, Undefined, Undefined),
      MkArgs("undefined", Undefined, Undefined, Undefined),
      MkArgs("number", Undefined, Undefined, Undefined) }

\* Sessions: without lists, with a deny list, with an allow list, with an
\* empty allow list.
PolicySessions ==
    { MkSession("U1", "chat", {}, FALSE, {}),
      MkSession("U1", "chat", {S_bash}, FALSE, {}),
      MkSession("U1", "chat", {}, TRUE, {S_read_file}),
      MkSession("U1", "chat", {}, TRUE, {}) }

\* A PolicyRule; reason "" stands for a rule without reason.
MkRule(toolPattern, decision, reason) ==
    [name |-> "rule", toolPattern |-> toolPattern, decision |-> decision,
     reason |-> reason]

RuleChoices ==
    { MkRule(<<"*">>, "allow", ""),
      MkRule(<<"*">>, "deny", ""),
      MkRule(<<"r","e","a","d","*">>, "deny", "no reads"),
      MkRule(S_bash, "require_approval", ""),
      MkRule(<<"b","*">>, "allow", "") }

\* A confirm list a configuration may set (the one of the README).
configuredConfirmList ==
    << <<"r","m">>, <<"m","v">>, <<"s","u","d","o">>, <<"d","e","l">>,
       <<"r","m","d","i","r">> >>

ConfirmLists == {shellConfirmList, configuredConfirmList}

\* No evaluate call was made yet.
NoEvalCall ==
    [called |-> FALSE, tool |-> << >>, args |-> NoArgs,
     session |-> MkSession("U1", "chat", {}, FALSE, {}),
     result |-> Decision("allow", "", << >>, << >>)]

\* addRule(rule).  A run configures the engine and then asks for one
\* decision: evaluate reads the engine and changes nothing in it.
AddRule(r) ==
    /\ ~evalCall.called
    /\ Len(rules) < MaxRules
    /\ rules' = Append(rules, r)
    /\ UNCHANGED << shellList, evalCall, auditCalls, auditLog, turnVars,
                    bridgeVars, routerVars, storeVars, sessionKeys,
                    lastActivity, sessionId, heldId, unitVars >>

\* setShellConfirmList(list)
SetShellConfirmList(list) ==
    /\ ~evalCall.called
    /\ shellList' = list
    /\ UNCHANGED << rules, evalCall, auditCalls, auditLog, turnVars,
                    bridgeVars, routerVars, storeVars, sessionKeys,
                    lastActivity, sessionId, heldId, unitVars >>

\* evaluate({tool, args, session}): what the call returned, or that it threw
\* (result.type = "throw").
PolicyEvaluate(name, args, session) ==
    /\ ~evalCall.called
    /\ evalCall' = [called |-> TRUE, tool |-> name, args |-> args,
                    session |-> session,
                    result |-> Evaluate(name, args, session, rules, shellList)]
    /\ UNCHANGED << rules, shellList, auditCalls, auditLog, turnVars,
                    bridgeVars, routerVars, storeVars, sessionKeys,
                    lastActivity, sessionId, heldId, unitVars >>

\* The entry of the k-th logAudit call of a run: the calls are made for
\* different chats, so that the entries can be told apart.
AuditEntry(k) ==
    [userId |-> "U1", chatId |-> <<"chat", k>>, tool |-> S_date,
     args |-> NoArgs, decision |-> Decision("allow", "", S_date, << >>)]

\* logAudit(entry)
LogAuditCall ==
    /\ auditCalls < MaxAuditCalls
    /\ auditLog' = LogAudit(auditLog, AuditEntry(auditCalls + 1))
    /\ auditCalls' = auditCalls + 1
    /\ UNCHANGED << policyVars, turnVars, bridgeVars, routerVars, storeVars,
                    sessionKeys, lastActivity, sessionId, heldId, unitVars >>

(***************************************************************************)
(* ToolRegistry and ToolExecutor called on their own (core/registry.ts).   *)
(***************************************************************************)

\* Tools a registry holds at most in a run.
MaxRegistered == 2

\* A field of a zod object shape: its key and the type names of its schema,
\* outermost first (z.string().optional() is ZodOptional around ZodString).
Field(key, typeNames) == [key |-> key, typeNames |-> typeNames]

\* A ToolDefinition: required are the fields validateArgs insists on.
Tool(name, required, shape) == [name |-> name, required |-> required, shape |-> shape]

\* The input schemas of tools/bash.ts, tools/read.ts and tools/write.ts.
BuiltinTools ==
    { Tool(S_bash, {"command"},
           << Field("command", <<"ZodString">>),
              Field("timeout", <<"ZodOptional", "ZodNumber">>) >>),
      Tool(S_read_file, {"path"},
           << Field("path", <<"ZodString">>),
              Field("encoding", <<"ZodOptional", "ZodEnum">>) >>),
      Tool(S_write_file, {"path"},
           << Field("path", <<"ZodString">>),
              Field("content", <<"ZodString">>),
              Field("createDirs", <<"ZodOptional", "ZodBoolean">>) >>) }

\* Tools a caller of register may add: a field with a default, a nullable
\* field.
CallerTools ==
    { Tool(S_Grep, {"path"},
           << Field("path", <<"ZodString">>),
              Field("file", <<"ZodDefault", "ZodString">>) >>),
      Tool(S_Shell, {"command"},
           << Field("command", <<"ZodString">>),
              Field("file", <<"ZodNullable", "ZodString">>) >>) }

\* The type the schema gives a field: by the outermost type name, string
\* when it is none of the five.
JsonType(typeName) ==
    IF typeName = "ZodNumber" THEN "number"
    ELSE IF typeName = "ZodBoolean" THEN "boolean"
    ELSE IF typeName = "ZodArray" THEN "array"
    ELSE IF typeName = "ZodObject" THEN "object"
    ELSE "string"

\* fieldDef.isOptional?.(): _def is a plain object without that method, so
\* the call yields undefined for every field.
DefIsOptional(field) == FALSE

\* ToolRegistry.zodToJsonSchema for an object schema: required holds the
\* keys, in order, and is undefined when there are none.
zodToJsonSchema(shape) ==
    LET needed == SelectSeq(shape, LAMBDA f :
                      Head(f.typeNames) # "ZodOptional" /\ ~DefIsOptional(f))
    IN [properties |-> [i \in 1..Len(shape) |->
                           [key |-> shape[i].key,
                            type |-> JsonType(Head(shape[i].typeNames))]],
        required |-> IF Len(needed) > 0
                     THEN [i \in 1..Len(needed) |-> needed[i].key]
                     ELSE Undefined]

\* No getSchemas call was made.
NoSchemasCall == [called |-> FALSE, tools |-> {}, list |-> {}]

\* How execute settles: it returns a ToolResult or rejects with what the
\* tool threw; invoked tells whether the tool's executor function ran.
Settled(kind, result, invoked) == [kind |-> kind, result |-> result, invoked |-> invoked]

\* No execute call was made.
NoExecuteCall ==
    [called |-> FALSE, tools |-> {}, name |-> << >>, args |-> NoArgs,
     outcome |-> "ok", settled |-> Settled("return", NoResult, FALSE)]

\* An execute without the catch around the tool's executor function.
ExecuteSettlesUncaught(tools, name, args, outcome) ==
    IF ExecutorRuns(tools, name, args) /\ outcome = "throw"
    THEN Settled("throw", NoResult, TRUE)
    ELSE Settled("return", Execute(tools, name, args, outcome),
                 ExecutorRuns(tools, name, args))

\* ToolExecutor.execute as its caller sees it: the exception of the tool's
\* executor function is caught and returned as a failure.
ExecuteSettles(tools, name, args, outcome) ==
    Settled("return", Execute(tools, name, args, outcome),
            ExecutorRuns(tools, name, args))

\* What the registry and the executor leave alone.
notRegistryVars ==
    << gatewayVars, bridgeVars, routerVars, policyVars, auditCalls, storeVars,
       sessionKeys, lastActivity, sessionId, heldId, keyVars, adapterVars,
       configVars >>

\* register(tool): the definition replaces one of the same name.
RegisterTool(tool) ==
    /\ Cardinality({ d \in registered : d.name # tool.name }) < MaxRegistered
    /\ registered' = { d \in registered : d.name # tool.name } \cup {tool}
    /\ UNCHANGED << schemas, executed, notRegistryVars >>

\* getSchemas()
GetSchemasCall ==
    /\ schemas' = [called |-> TRUE, tools |-> registered,
                   list |-> { [name |-> d.name,
                               input_schema |-> zodToJsonSchema(d.shape)] :
                              d \in registered }]
    /\ UNCHANGED << registered, executed, notRegistryVars >>

\* Arguments execute is called with.
ExecutorArgs ==
    { MkArgs("object", S_date, Undefined, Undefined),
      MkArgs("object", Undefined, S_path, Undefined),
      MkArgs("object", NotAString, Undefined, Undefined),
      MkArgs("null", Undefined, Undefined, Undefined) }

\* execute({toolName, args, context}), the tool's executor function doing
\* any of what it may do.
ExecutorExecute(name, args, outcome) ==
    /\ executed' = [called |-> TRUE, tools |-> registered, name |-> name,
                    args |-> args, outcome |-> outcome,
                    settled |-> ExecuteSettles(registered, name, args, outcome)]
    /\ UNCHANGED << registered, schemas, notRegistryVars >>

(***************************************************************************)
(* Specifications.                                                         *)
(***************************************************************************)

\* No getHistory call was made.
NoHistoryCall == [called |-> FALSE, userId |-> << >>, chatId |-> << >>, history |-> << >>]

InitTurnState ==
    /\ nextCallId = [t \in Turns |-> 1]
    /\ textCount = [t \in Turns |-> 0]
    /\ pc = [t \in Turns |-> "idle"]
    /\ input = [t \in Turns |->
           [session |-> MkSession("U1", "chat", {}, FALSE, {}),
            onPermissionRequest |-> "none",
            message |-> MessageOf(t), history |-> Undefined]]
    /\ iteration = [t \in Turns |-> 0]
    /\ pendingToolCalls = [t \in Turns |-> << >>]
    /\ tcIdx = [t \in Turns |-> 0]
    /\ fullResponse = [t \in Turns |-> << >>]
    /\ lastToolResults = [t \in Turns |-> << >>]
    /\ roundResults = [t \in Turns |-> << >>]
    /\ events = [t \in Turns |-> << >>]
    /\ chatLog = [t \in Turns |-> << >>]
    /\ execLog = [t \in Turns |-> << >>]
    /\ approvals = [t \in Turns |-> << >>]
    /\ handler = FALSE
    /\ requests = << >>
    /\ handlerCall = << >>
    /\ pendingRequests = {}
    /\ lastNoop = 0
    /\ reqOf = [t \in Turns |-> 0]
    /\ routerPc = [t \in Turns |-> "idle"]
    /\ sessions = [u \in Users |-> << >>]
    /\ replies = [t \in Turns |-> << >>]
    /\ arrival = [t \in Turns |-> NoArrival]
    /\ rules = << >>
    /\ evalCall = NoEvalCall
    /\ now = 0
    /\ sessionKeys = {}
    /\ lastActivity = [u \in Users |-> 0]
    /\ sessionId = [u \in Users |-> 0]
    /\ heldId = [t \in Turns |-> 0]
    /\ sessionsByKey = << >>
    /\ gotHistory = NoHistoryCall
    /\ adapterPc = "idle"
    /\ adapterIn = << >>
    /\ adapterState = NoParserState
    /\ adapterOut = << >>
    /\ adapterTimer = "armed"
    /\ registered = {}
    /\ schemas = NoSchemasCall
    /\ executed = NoExecuteCall
    /\ holding = [u \in Users |-> FALSE]
    /\ pushCount = 0
    /\ tickCount = 0

\* The audit log of an engine that was just built.
InitEmptyAudit ==
    /\ auditLog = << >>
    /\ auditCalls = 0

\* A run in which the session store is used by the router's turns only.
NoStoreRun == [users |-> {}, maxPushes |-> 0]

\* The configuration of the runs that do not vary it: no whitelist, the
\* Telegram channel alone, no llm.maxIterations.
NoWhitelists == [c \in Channels |-> {}]

InitTelegramOnly ==
    /\ allowedUsers = NoWhitelists
    /\ channels = {"telegram"}
    /\ llmMaxIterations = {}

\* One turn of the gateway, for any input a caller may pass.
Init ==
    /\ \E configured \in 1..MaxIterCfg :
          maxIterations = GatewayMaxIterations(configured)
    /\ turnSet = {1}
    /\ llmBudget = MaxLlmEvents
    /\ toolKinds = ToolCallKinds
    /\ InitTelegramOnly
    /\ shellList = shellConfirmList
    /\ storeCfg = NoStoreRun
    /\ adapterKind = NoAdapter
    /\ InitEmptyAudit
    /\ InitTurnState

Next ==
    \E t \in Turns :
        \/ GatewayStart(t)
        \/ LlmTextDelta(t)
        \/ LlmToolCall(t)
        \/ LlmDone(t)
        \/ LlmError(t)
        \/ LlmStreamEnd(t)
        \/ ToolNotFound(t)
        \/ PolicyThrows(t)
        \/ PolicyDeny(t)
        \/ PolicyRequireApproval(t)
        \/ PolicyAllow(t)
        \/ ApprovalNoCallback(t)
        \/ ApprovalCallback(t)

Spec == Init /\ [][Next]_vars

\* One turn of the gateway for a caller that may pass a history.
InitMessages ==
    /\ \E configured \in 1..MaxIterCfg :
          maxIterations = GatewayMaxIterations(configured)
    /\ turnSet = {1}
    /\ llmBudget = MaxLlmEventsMsg
    /\ toolKinds = ToolCallKinds
    /\ InitTelegramOnly
    /\ shellList = shellConfirmList
    /\ storeCfg = NoStoreRun
    /\ adapterKind = NoAdapter
    /\ InitEmptyAudit
    /\ InitTurnState

NextMessages ==
    \E t \in Turns :
        \/ GatewayStartWithHistory(t)
        \/ LlmTextDelta(t)
        \/ LlmToolCall(t)
        \/ LlmDone(t)
        \/ LlmError(t)
        \/ LlmStreamEnd(t)
        \/ ToolNotFound(t)
        \/ PolicyThrows(t)
        \/ PolicyDeny(t)
        \/ PolicyRequireApproval(t)
        \/ PolicyAllow(t)
        \/ ApprovalNoCallback(t)
        \/ ApprovalCallback(t)

SpecMessages == InitMessages /\ [][NextMessages]_vars

\* The application: two messages routed through callAgent, the gateway and
\* the permission bridge.
InitApp ==
    /\ maxIterations = GatewayMaxIterations(AppMaxIterations)
    /\ turnSet = Turns
    /\ llmBudget = MaxLlmEventsApp
    /\ toolKinds = AppToolCallKinds
    /\ InitTelegramOnly
    /\ shellList = shellConfirmList
    /\ storeCfg = NoStoreRun
    /\ adapterKind = NoAdapter
    /\ InitEmptyAudit
    /\ InitTurnState

NextApp ==
    \/ RegisterHandler
    \/ \E id \in ReqIds :
          \/ HandlerDelivers(id)
          \/ HandlerReturnsUndelivered(id)
          \/ HandlerRejects(id)
          \/ \E d \in Decisions : ResolveRequest(id, d)
    \/ \E t \in Turns :
          \/ RouterHandleMessage(t)
          \/ LlmTextDelta(t)
          \/ LlmToolCall(t)
          \/ LlmDone(t)
          \/ LlmError(t)
          \/ LlmStreamEnd(t)
            \/ PolicyRequireApproval(t)
          \/ BridgeRequest(t)
          \/ ApprovalResolved(t)
            \/ RouterReply(t)

SpecApp == InitApp /\ [][NextApp]_vars

\* The application with one routed message, the clock and the sweep of the
\* session store.
InitEvict ==
    /\ maxIterations = GatewayMaxIterations(AppMaxIterations)
    /\ turnSet = {1}
    /\ llmBudget = MaxLlmEventsEvict
    /\ toolKinds = AppToolCallKinds
    /\ InitTelegramOnly
    /\ shellList = shellConfirmList
    /\ storeCfg = NoStoreRun
    /\ adapterKind = NoAdapter
    /\ InitEmptyAudit
    /\ InitTurnState

NextEvict ==
    \/ NextApp
    \/ CleanupExpiredSessions
    \/ \E d \in TickSteps : Tick(d)

SpecEvict == InitEvict /\ [][NextEvict]_vars

\* One routed turn, with more provider events than the sweep's run has.
InitPrompt ==
    /\ maxIterations = GatewayMaxIterations(AppMaxIterations)
    /\ turnSet = {1}
    /\ llmBudget = MaxLlmEventsApp
    /\ toolKinds = AppToolCallKinds
    /\ InitTelegramOnly
    /\ shellList = shellConfirmList
    /\ storeCfg = NoStoreRun
    /\ adapterKind = NoAdapter
    /\ InitEmptyAudit
    /\ InitTurnState

\* The application started from a configuration with or without a value of
\* llm.maxIterations: initAgentClient builds the gateway with 10 either way.
IterationChoices == { {} } \cup { {n} : n \in 0..MaxIterCfg }

InitIterations ==
    /\ maxIterations = GatewayMaxIterations(AppMaxIterations)
    /\ turnSet = {1}
    /\ llmBudget = MaxLlmEventsApp
    /\ toolKinds = AppToolCallKinds
    /\ allowedUsers = NoWhitelists
    /\ channels = {"telegram"}
    /\ llmMaxIterations \in IterationChoices
    /\ shellList = shellConfirmList
    /\ storeCfg = NoStoreRun
    /\ adapterKind = NoAdapter
    /\ InitEmptyAudit
    /\ InitTurnState

SpecIterations == InitIterations /\ [][NextApp]_vars

\* The application with both channels started and a whitelist configured
\* for each of them: initPolicy({telegram, feishu}).
WhitelistChoices == { {}, {"U1"}, {"U2"} }

InitChannels ==
    /\ maxIterations = GatewayMaxIterations(AppMaxIterations)
    /\ turnSet = {1}
    /\ llmBudget = MaxLlmEventsEvict
    /\ toolKinds = AppToolCallKinds
    /\ allowedUsers \in [Channels -> WhitelistChoices]
    /\ channels = Channels
    /\ llmMaxIterations = {}
    /\ shellList = shellConfirmList
    /\ storeCfg = NoStoreRun
    /\ adapterKind = NoAdapter
    /\ InitEmptyAudit
    /\ InitTurnState

SpecChannels == InitChannels /\ [][NextApp]_vars

\* The turn with the event loop going on: a handler invocation settles, and
\* the continuation of a settled promise runs.  Nothing obliges a user to
\* answer a prompt.
SpecPrompt ==
    /\ InitPrompt
    /\ [][NextApp]_vars
    /\ WF_vars(\E id \in ReqIds : HandlerDelivers(id) \/ HandlerReturnsUndelivered(id)
                                     \/ HandlerRejects(id))
    /\ WF_vars(\E t \in Turns : ApprovalResolved(t))

\* No turn of the gateway is started.
InitNoTurns ==
    /\ maxIterations = GatewayMaxIterations(0)
    /\ turnSet = {}
    /\ llmBudget = 0
    /\ toolKinds = {}
    /\ InitTelegramOnly
    /\ InitTurnState

\* The session store called for pairs of ids.
InitKeys ==
    /\ shellList = shellConfirmList
    /\ storeCfg = NoStoreRun
    /\ adapterKind = NoAdapter
    /\ InitEmptyAudit
    /\ InitNoTurns

NextKeys ==
    \E userId \in IdChoices : \E chatId \in IdChoices :
        \/ AddMessageForPair(userId, chatId)
        \/ GetHistoryForPair(userId, chatId)

SpecKeys == InitKeys /\ [][NextKeys]_vars

\* Provider events a run of malformed tool calls emits at most.
MaxLlmEventsMalformed == 2

\* One turn of the gateway on an adapter that parses argument text, with a
\* provider whose tool calls all carry argument text that is not JSON.
InitMalformed ==
    /\ \E configured \in 1..MaxIterCfg :
          maxIterations = GatewayMaxIterations(configured)
    /\ turnSet = {1}
    /\ llmBudget = MaxLlmEventsMalformed
    /\ toolKinds = {}
    /\ InitTelegramOnly
    /\ shellList = shellConfirmList
    /\ storeCfg = NoStoreRun
    /\ adapterKind \in TextArgKinds
    /\ InitEmptyAudit
    /\ InitTurnState

NextMalformed ==
    \E t \in Turns :
        \/ GatewayStart(t)
        \/ LlmTextDelta(t)
        \/ LlmMalformedToolCall(t)
        \/ LlmDone(t)
        \/ LlmError(t)
        \/ LlmStreamEnd(t)
        \/ ToolNotFound(t)
        \/ PolicyDeny(t)
        \/ PolicyAllow(t)

SpecMalformed == InitMalformed /\ [][NextMalformed]_vars

\* A registry that tools are registered in, asked for its schemas, and an
\* executor on it.
InitRegistry ==
    /\ shellList = shellConfirmList
    /\ storeCfg = NoStoreRun
    /\ adapterKind = NoAdapter
    /\ InitEmptyAudit
    /\ InitNoTurns

NextRegistry ==
    \/ \E tool \in BuiltinTools \cup CallerTools : RegisterTool(tool)
    \/ GetSchemasCall
    \/ \E name \in {S_bash, S_read_file, S_ghost} : \E args \in ExecutorArgs :
          \E outcome \in ToolOutcomes : ExecutorExecute(name, args, outcome)

SpecRegistry == InitRegistry /\ [][NextRegistry]_vars

\* One chat() call of an adapter of any of the four kinds.
InitAdapter ==
    /\ shellList = shellConfirmList
    /\ storeCfg = NoStoreRun
    /\ adapterKind \in AdapterKinds
    /\ InitEmptyAudit
    /\ InitNoTurns

NextAdapter ==
    \/ AdapterFetchThrows
    \/ AdapterDeadline
    \/ AdapterResponseRejected
    \/ AdapterResponseOk
    \/ \E f \in FrameChoices(adapterKind) : AdapterFrame(f)
    \/ AdapterReadThrows
    \/ AdapterStreamEnd

SpecAdapter == InitAdapter /\ [][NextAdapter]_vars

\* The same with time passing: a timeout that is set fires.  The provider is
\* free to send nothing more.
SpecDeadline == SpecAdapter /\ WF_vars(AdapterDeadline)

\* The policy engine alone: built by getPolicyEngine with the default
\* confirm list, then configured and asked for a decision.
InitPolicy ==
    /\ shellList = shellConfirmList
    /\ storeCfg = NoStoreRun
    /\ adapterKind = NoAdapter
    /\ InitEmptyAudit
    /\ InitNoTurns

NextPolicy ==
    \/ \E r \in RuleChoices : AddRule(r)
    \/ \E list \in ConfirmLists : SetShellConfirmList(list)
    \/ \E name \in PolicyToolNames : \E args \in PolicyArgs :
          \E session \in PolicySessions : PolicyEvaluate(name, args, session)

SpecPolicy == InitPolicy /\ [][NextPolicy]_vars

\* The audit log alone, filled beyond its capacity: the run starts at an
\* engine that has audited AuditedBefore calls since it was built.
InitAudit ==
    /\ shellList = shellConfirmList
    /\ storeCfg = NoStoreRun
    /\ adapterKind = NoAdapter
    /\ auditCalls = AuditedBefore
    /\ auditLog = [i \in 1..AuditedBefore |-> AuditEntry(i)]
    /\ InitNoTurns

NextAudit == LogAuditCall

SpecAudit == InitAudit /\ [][NextAudit]_vars

\* The history of one session, with more messages than MAX_HISTORY.
InitHistory ==
    /\ shellList = shellConfirmList
    /\ storeCfg = [users |-> {"U1"}, maxPushes |-> MaxPushes]
    /\ adapterKind = NoAdapter
    /\ InitEmptyAudit
    /\ InitNoTurns

NextHistory ==
    \E u \in Users :
        \/ HandledUserMessage(u)
        \/ HandledReply(u)
        \/ HandledNoReply(u)
        \/ AddMessage(u)

SpecHistory == InitHistory /\ [][NextHistory]_vars

\* The session store of two users with its clock and its sweep.
InitSessions ==
    /\ shellList = shellConfirmList
    /\ storeCfg = [users |-> Users, maxPushes |-> MaxSweepPushes]
    /\ adapterKind = NoAdapter
    /\ InitEmptyAudit
    /\ InitNoTurns

NextSessions ==
    \/ CleanupExpiredSessions
    \/ \E d \in TickSteps : Tick(d)
    \/ \E u \in Users :
          \/ HandledUserMessage(u)
          \/ HandledReply(u)
          \/ HandledNoReply(u)
          \/ AddMessage(u)
          \/ GetHistory(u)
          \/ ClearCommand(u)

SpecSessions == InitSessions /\ [][NextSessions]_vars

(***************************************************************************)
(* Properties.                                                             *)
(***************************************************************************)

Last(s) == s[Len(s)]

\* The tool_start event of call id in turn t.
StartOf(t, id) == CHOOSE e \in Range(events[t]) : e.type = "tool_start" /\ e.id = id

\* What the policy decides for call id of turn t.
DecisionOf(t, id) ==
    Evaluate(StartOf(t, id).name, StartOf(t, id).args, input[t].session,
             << >>, shellConfirmList).type

\* A callback was supplied and returned true for call id.
ApprovedByCallback(t, id) ==
    /\ input[t].onPermissionRequest # "none"
    /\ \E i \in 1..Len(approvals[t]) :
          approvals[t][i].id = id /\ approvals[t][i].approved

Permitted(t, id) ==
    \/ DecisionOf(t, id) = "allow"
    \/ DecisionOf(t, id) = "require_approval" /\ ApprovedByCallback(t, id)

\* C1: the executor is invoked for a call only when the policy allowed it, or
\* required approval and the supplied callback returned true; a registered
\* tool's call that was denied, rejected or had no callback is never executed
\* and its tool_result has success = false.
C1_ExecutorOnlyWhenPermitted ==
    \A t \in Turns :
        /\ \A i \in 1..Len(execLog[t]) : Permitted(t, execLog[t][i].id)
        /\ \A i \in 1..Len(events[t]) :
              LET e == events[t][i]
              IN  (e.type = "tool_result" /\ RegistryHas(coreTools, e.name)
                      /\ ~Permitted(t, e.id))
                  => /\ ~e.result.success
                     /\ \A j \in 1..Len(execLog[t]) : execLog[t][j].id # e.id

\* One turn in which a call that required approval was executed after the
\* callback approved it, and another was rejected and got a failed result.
C1_Witness ==
    \E t \in Turns :
        /\ \E i \in 1..Len(execLog[t]) :
              DecisionOf(t, execLog[t][i].id) = "require_approval"
        /\ \E j \in 1..Len(events[t]) :
              /\ events[t][j].type = "tool_result"
              /\ events[t][j].result = ToolResult(FALSE, "User denied permission")
              /\ \A k \in 1..Len(execLog[t]) : execLog[t][k].id # events[t][j].id

\* C2: when handleMessage is over, its event stream ends with exactly one
\* done or error event, and no done or error event comes earlier.
C2_StreamEndsWithDoneOrError ==
    \A t \in Turns :
        TurnOver(t) =>
            /\ Len(events[t]) > 0
            /\ Last(events[t]).type \in {"done", "error"}
            /\ \A i \in 1..(Len(events[t]) - 1) :
                  events[t][i].type \notin {"done", "error"}

\* Every round of the turn collected a tool call and no round failed in the
\* provider: the turn yielded neither done nor a provider error.
ToolCallEveryRound(t) ==
    \A i \in 1..Len(events[t]) :
        /\ events[t][i].type # "done"
        /\ events[t][i] # ErrorEv(<<"llm error">>)

\* C3: when the provider emits a tool call in every round, the turn ends
\* after exactly maxIterations rounds with one error event, the last event,
\* whose message names the cap.
C3_IterationCap ==
    \A t \in Turns :
        (TurnOver(t) /\ ToolCallEveryRound(t)) =>
            /\ Len(chatLog[t]) = maxIterations
            /\ Last(events[t]) = ErrorEv(MaxIterationsMessage(maxIterations))
            /\ Cardinality({i \in 1..Len(events[t]) : events[t][i].type = "error"}) = 1

\* C4: turns of one user are serialized: a later message of the user has
\* caused no history mutation and no provider call before the user's earlier
\* turn was finished by the router.
C4_TurnsSerialized ==
    \A t1, t2 \in Turns :
        (/\ t1 < t2
         /\ routerPc[t1] # "idle"
         /\ routerPc[t2] # "idle"
         /\ input[t1].session.userId = input[t2].session.userId)
        => routerPc[t1] = "finished"

\* A resolveRequest(id, d) step that finds id pending completes exactly that
\* request with d and leaves every other request as it was.
ResolveOnlyThat(id, d) ==
    (ResolveRequest(id, d) /\ id \in pendingRequests) =>
        /\ requests'[id].promise = d
        /\ id \notin pendingRequests'
        /\ \A j \in ReqIds \ {id} :
              /\ requests'[j] = requests[j]
              /\ (j \in pendingRequests') = (j \in pendingRequests)

\* Every value a turn's callback returned is the decision of the request
\* that this turn itself created.
OwnDecision ==
    \A t \in Turns : \A i \in 1..Len(approvals[t]) :
        approvals[t][i].req # 0 =>
            /\ requests[approvals[t][i].req].turn = t
            /\ approvals[t][i].approved = (requests[approvals[t][i].req].promise = "allow")

\* C5: with several requests pending, resolveRequest(id, d) completes only the
\* request with that id, with d; the others stay pending, and each waiting
\* turn receives the decision of its own request, in whatever order the
\* requests are resolved.
C5_ResolveOnlyThatRequest ==
    /\ []OwnDecision
    /\ [][\A id \in ReqIds : \A d \in Decisions : ResolveOnlyThat(id, d)]_vars

\* U2's request was allowed and its turn went on, while the request U1 made
\* earlier is still pending.
C5_Witness ==
    \E i, j \in ReqIds :
        /\ i < j
        /\ requests[i].userId = "U1" /\ requests[j].userId = "U2"
        /\ i \in pendingRequests /\ requests[i].promise = "pending"
        /\ requests[j].promise = "allow"
        /\ \E k \in 1..Len(approvals[requests[j].turn]) :
              /\ approvals[requests[j].turn][k].req = j
              /\ approvals[requests[j].turn][k].approved

\* A resolveRequest(id, d) step for an id that is no longer pending changes
\* no request and no turn.
LaterResolveIsNoop(id, d) ==
    (ResolveRequest(id, d) /\ id \notin pendingRequests) =>
        UNCHANGED << requests, pendingRequests, handlerCall, approvals, pc, events, execLog >>

\* A settled request keeps its decision and stays out of the pending map.
SettledStays(id) ==
    requests[id].promise # "pending" =>
        /\ requests'[id].promise = requests[id].promise
        /\ id \notin pendingRequests'

\* C6: resolveRequest is idempotent: once a request is resolved it is out of
\* the pending map, later calls for its id change nothing, and the decision
\* of the first call stays.
C6_ResolveIdempotent ==
    /\ [](\A id \in ReqIds : requests[id].promise # "pending" => id \notin pendingRequests)
    /\ [][\A id \in ReqIds :
            /\ SettledStays(id)
            /\ \A d \in Decisions : LaterResolveIsNoop(id, d)]_vars

\* A second resolveRequest call was made for a request whose first call
\* allowed it, and the turn that asked had executed on that first decision.
C6_Witness ==
    /\ lastNoop # 0
    /\ requests[lastNoop].promise = "allow"
    /\ lastNoop \notin pendingRequests
    /\ \E k \in 1..Len(approvals[requests[lastNoop].turn]) :
          /\ approvals[requests[lastNoop].turn][k].req = lastNoop
          /\ approvals[requests[lastNoop].turn][k].approved

\* C7: request() never waits when it cannot be answered: without a handler no
\* request is stored and the callback returns false at once, and a request
\* whose handler invocation failed is resolved with deny and removed from the
\* pending map.
C7_RequestNeverBlocks ==
    /\ ~handler =>
          /\ requests = << >>
          /\ \A t \in Turns : pc[t] # "awaiting"
    /\ \A t \in Turns : \A i \in 1..Len(approvals[t]) :
          approvals[t][i].req = 0 => ~approvals[t][i].approved
    /\ \A id \in ReqIds :
          handlerCall[id] = "rejected" =>
              requests[id].promise = "deny" /\ id \notin pendingRequests

\* One turn asked while no handler was registered and got a failed result at
\* once; a later turn's request was denied because its handler invocation
\* failed, and that turn went on with the denial.
C7_Witness ==
    \E t1, t2 \in Turns :
        /\ \E i \in 1..Len(approvals[t1]) : approvals[t1][i].req = 0
        /\ \E k \in 1..Len(approvals[t2]) :
              /\ approvals[t2][k].req # 0
              /\ handlerCall[approvals[t2][k].req] = "rejected"
              /\ ~approvals[t2][k].approved
        /\ \E j \in 1..Len(events[t2]) :
              events[t2][j].result = ToolResult(FALSE, "User denied permission")

\* The error event of a provider failure.
LlmErrorEv == ErrorEv(<<"llm error">>)

\* Where a provider error was yielded it is the last and only error event,
\* the turn is over, and no call collected in that round was started or
\* executed.
ProviderErrorEndsTurn(t) ==
    \A i \in 1..Len(events[t]) :
        events[t][i] = LlmErrorEv =>
            /\ i = Len(events[t])
            /\ pc[t] = "error"
            /\ \A j \in 1..(i - 1) : events[t][j].type # "error"
            /\ \A k \in 1..Len(pendingToolCalls[t]) :
                  /\ \A j \in 1..Len(events[t]) : events[t][j].id # pendingToolCalls[t][k].id
                  /\ \A j \in 1..Len(execLog[t]) : execLog[t][j].id # pendingToolCalls[t][k].id

\* A turn that ended with an error makes no provider call, executes nothing
\* and yields nothing any more.
ErrorIsFinal(t) ==
    pc[t] = "error" =>
        /\ pc'[t] = "error"
        /\ events'[t] = events[t]
        /\ chatLog'[t] = chatLog[t]
        /\ execLog'[t] = execLog[t]

\* C8: a provider error (an error event of the adapter, or chat throwing)
\* yields one error event and ends the turn: the tool calls collected in that
\* round are neither started nor executed, and no further provider round
\* follows.
C8_ProviderErrorEndsTurn ==
    /\ [](\A t \in Turns : ProviderErrorEndsTurn(t))
    /\ [][\A t \in Turns : ErrorIsFinal(t)]_vars

\* A provider error in the second round, with a tool call of that round
\* collected and left alone.
C8_Witness ==
    \E t \in Turns :
        /\ Len(events[t]) > 0
        /\ Last(events[t]) = LlmErrorEv
        /\ Len(chatLog[t]) >= 2
        /\ pendingToolCalls[t] # << >>

\* The record a failed tool_result event of the call with that meta leaves
\* for the provider.
FailedRecordWith(e, meta) ==
    LLMToolResult([id |-> e.id, name |-> e.name, args |-> e.args,
                   meta |-> meta], e.result, TRUE)

\* A step that yields a failed tool_result goes on with the next call of the
\* round, or with the next provider round that receives the failed result,
\* or ends with the iteration cap's error when the loop is exhausted.
FailureGoesOn(t) ==
    \A i \in (Len(events[t]) + 1)..Len(events'[t]) :
        LET e == events'[t][i]
        IN  (e.type = "tool_result" /\ ~e.result.success) =>
              /\ pc'[t] \in {"tool", "llm", "error"}
              /\ pc'[t] = "tool" => Last(roundResults'[t]) =
                        FailedRecordWith(e, CurrentCall(t).meta)
              /\ pc'[t] = "llm" =>
                    /\ Len(chatLog'[t]) = Len(chatLog[t]) + 1
                    /\ Last(chatLog'[t]).hasToolResults
                    /\ Last(Last(chatLog'[t]).toolResults) =
                        FailedRecordWith(e, CurrentCall(t).meta)
              /\ pc'[t] = "error" =>
                    /\ iteration'[t] = maxIterations
                    /\ Last(events'[t]) = ErrorEv(MaxIterationsMessage(maxIterations))

\* Error events come only from the provider and from the iteration cap.
ErrorCauses(t) ==
    \A i \in 1..Len(events[t]) :
        events[t][i].type = "error" =>
            events[t][i] \in {LlmErrorEv, ErrorEv(MaxIterationsMessage(maxIterations))}

C10_ToolEventOrder ==
    \A t \in Turns :
        TurnOver(t) =>
            \A i \in 1..Len(events[t]) :
                events[t][i].type = "tool_start" =>
                    LET id == events[t][i].id
                    IN  /\ i < Len(events[t])
                        /\ events[t][i + 1].id = id
                        /\ IF events[t][i + 1].type = "tool_pending"
                           THEN /\ DecisionOf(t, id) = "require_approval"
                                /\ i + 2 <= Len(events[t])
                                /\ events[t][i + 2].type = "tool_result"
                                /\ events[t][i + 2].id = id
                           ELSE events[t][i + 1].type = "tool_result"
                        /\ Cardinality({j \in 1..Len(events[t]) :
                               events[t][j].type = "tool_result"
                               /\ events[t][j].id = id}) = 1

(***************************************************************************)
(* The policy engine's decisions.                                          *)
(***************************************************************************)

\* C11: policy.evaluate returns one of allow, deny and require_approval for
\* every tool, session and arguments (null, undefined, not an object, a
\* command that is not a string included) and never throws.
C11_EvaluateTotal ==
    evalCall.called =>
        evalCall.result.type \in {"allow", "deny", "require_approval"}

\* A session-level list decides about the tool: the deny list names it, or
\* there is an allow list that does not name it.
SessionListApplies(name, session) ==
    \/ name \in session.deniedTools
    \/ session.hasAllowedTools /\ name \notin session.allowedTools

\* C12: when the session's deny list names the tool, or its allow list is set
\* and does not name it, the decision is deny, whatever the rules (an
\* allow-all rule included), the name heuristics and the arguments are.
C12_SessionListsDeny ==
    (evalCall.called /\ SessionListApplies(evalCall.tool, evalCall.session)) =>
        evalCall.result.type = "deny"

\* bash is on the deny list, the first rule allows every tool and the command
\* is not a string: the call is denied.
C12_Witness ==
    /\ evalCall.called
    /\ evalCall.tool = S_bash
    /\ S_bash \in evalCall.session.deniedTools
    /\ Len(rules) >= 1
    /\ rules[1].toolPattern = <<"*">>
    /\ rules[1].decision = "allow"
    /\ evalCall.args.command = NotAString
    /\ evalCall.result.type = "deny"

\* A pattern matches a name: * matches every name, prefix* the names that
\* start with prefix, any other pattern the identical name only.
PatternMatches(name, pattern) ==
    IF pattern = <<"*">> THEN TRUE
    ELSE IF pattern # << >> /\ Last(pattern) = "*"
    THEN /\ Len(name) >= Len(pattern) - 1
         /\ \A i \in 1..(Len(pattern) - 1) : name[i] = pattern[i]
    ELSE name = pattern

\* The position of the first rule from position i on whose pattern matches
\* the name, 0 when there is none.
RECURSIVE FirstMatchFrom(_, _, _)
FirstMatchFrom(name, ruleList, i) ==
    IF i > Len(ruleList) THEN 0
    ELSE IF PatternMatches(name, ruleList[i].toolPattern) THEN i
    ELSE FirstMatchFrom(name, ruleList, i + 1)

\* C13: when no session list applies, the first rule in insertion order whose
\* pattern matches the tool name determines the decision, and the built-in
\* heuristics are consulted only when no rule matches.
C13_FirstMatchingRuleDecides ==
    (evalCall.called /\ ~SessionListApplies(evalCall.tool, evalCall.session)) =>
        LET i == FirstMatchFrom(evalCall.tool, rules, 1)
        IN  IF i > 0
            THEN evalCall.result.type = rules[i].decision
            ELSE evalCall.result =
                     BuiltinDecision(evalCall.tool, evalCall.args, shellList)

\* Two rules match the tool and disagree, and the heuristics would decide
\* otherwise than the first: the first rule's decision is returned.
C13_Witness ==
    /\ evalCall.called
    /\ ~SessionListApplies(evalCall.tool, evalCall.session)
    /\ Len(rules) = 2
    /\ PatternMatches(evalCall.tool, rules[1].toolPattern)
    /\ PatternMatches(evalCall.tool, rules[2].toolPattern)
    /\ rules[1].toolPattern # <<"*">>
    /\ rules[1].decision # rules[2].decision
    /\ BuiltinDecision(evalCall.tool, evalCall.args, shellList).type # rules[1].decision
    /\ evalCall.result.type = rules[1].decision

\* No session list and no rule decides about the call: the built-in
\* heuristics do.
HeuristicsDecide ==
    /\ evalCall.called
    /\ ~SessionListApplies(evalCall.tool, evalCall.session)
    /\ FirstMatchFrom(evalCall.tool, rules, 1) = 0

\* The name contains s, whatever the case of its letters.
NameContains(name, s) == Includes(ToLowerCase(name), s)

ReadOnlyName(name) ==
    \E s \in { <<"r","e","a","d">>, <<"l","i","s","t">>, <<"l","s">>,
               <<"s","e","a","r","c","h">>, <<"g","r","e","p">>,
               <<"g","l","o","b">>, <<"v","i","e","w">> } : NameContains(name, s)

ShellName(name) == ToLowerCase(name) \in {S_bash, S_shell}

WriteName(name) ==
    \E s \in { <<"w","r","i","t","e">>, <<"e","d","i","t">>,
               <<"d","e","l","e","t","e">>, <<"r","e","m","o","v","e">>,
               <<"c","r","e","a","t","e">> } : NameContains(name, s)

\* C14: for a tool named bash or shell, when no session list or rule applies
\* and the command does not match the safe read-only patterns, the decision
\* is require_approval if the command contains a string of the confirm list
\* and allow otherwise.
C14_ShellConfirmList ==
    LET command == ArgField(evalCall.args, "command")
        safe == IsString(command) /\ isSafeReadOnlyShellCommand(command)
        listed == /\ IsString(command)
                  /\ \E i \in DOMAIN shellList : Includes(command, shellList[i])
    IN  (HeuristicsDecide /\ ShellName(evalCall.tool) /\ ~safe) =>
            evalCall.result.type = IF listed THEN "require_approval" ELSE "allow"

\* C15: when no session list or rule applies, a tool whose name is not bash
\* or shell and contains no read-only word gets require_approval, never
\* allow: a write, edit, delete, remove or create tool with a prompt that
\* names the path or file argument, any other tool with the generic prompt.
C15_OtherToolsNeedApproval ==
    LET path == ArgField(evalCall.args, "path")
        file == ArgField(evalCall.args, "file")
        named == IF path \notin {Undefined, << >>} THEN path
                 ELSE IF file \notin {Undefined, << >>} THEN file
                 ELSE <<"u","n","k","n","o","w","n">>
    IN  (HeuristicsDecide /\ ~ShellName(evalCall.tool) /\ ~ReadOnlyName(evalCall.tool)) =>
            /\ evalCall.result.type = "require_approval"
            /\ IF WriteName(evalCall.tool)
               THEN /\ evalCall.result.text = "Permission Request File"
                    /\ evalCall.result.detail = named
               ELSE evalCall.result.text = "Permission Request Args"

\* The read-only heuristic as a function of the name: for every sampled name
\* with a read-only word, every argument value, every session whose lists do
\* not apply and either confirm list, an engine without rules allows.
ReadOnlyHeuristicAllows ==
    \A name \in PolicyToolNames : \A args \in PolicyArgs :
        \A session \in PolicySessions : \A list \in ConfirmLists :
            (ReadOnlyName(name) /\ ~SessionListApplies(name, session)) =>
                Evaluate(name, args, session, << >>, list).type = "allow"

\* In turn t the call started by event i is allowed by the policy and its
\* events are tool_start, then tool_result, with no tool_pending.
StartThenResult(t, i) ==
    LET e == events[t][i]
    IN  /\ i < Len(events[t])
        /\ events[t][i + 1].type = "tool_result"
        /\ events[t][i + 1].id = e.id
        /\ \A j \in 1..Len(events[t]) :
              events[t][j].type = "tool_pending" => events[t][j].id # e.id
        /\ \E k \in 1..Len(auditLog) :
              /\ auditLog[k].tool = e.name
              /\ auditLog[k].args = e.args
              /\ auditLog[k].decision.type = "allow"

\* C16: when no session list or rule applies, a tool whose name contains
\* read, list, ls, search, grep, glob or view (in any case) is allowed, so a
\* turn that calls such a tool yields tool_start and then tool_result for
\* it, with no tool_pending.  (The heuristic is a function of the call alone:
\* it is evaluated for the sampled calls before the turn starts.)
C16_ReadOnlyToolsAllowed ==
    /\ (\A t \in Turns : pc[t] = "idle") => ReadOnlyHeuristicAllows
    /\ \A t \in Turns : \A i \in 1..Len(events[t]) :
          (/\ events[t][i].type = "tool_start"
           /\ ReadOnlyName(events[t][i].name)
           /\ RegistryHas(coreTools, events[t][i].name)
           /\ ~SessionListApplies(events[t][i].name, input[t].session))
          => StartThenResult(t, i)

\* A turn that called read_file: tool_start, tool_result with success, a
\* text delta and done, the policy never asking.
C16_Witness ==
    \E t \in Turns :
        /\ Len(events[t]) = 4
        /\ events[t][1].type = "tool_start"
        /\ events[t][1].name = S_read_file
        /\ events[t][2].type = "tool_result"
        /\ events[t][2].id = events[t][1].id
        /\ events[t][2].result.success
        /\ events[t][3].type = "text_delta"
        /\ events[t][4].type = "done"
        /\ Len(auditLog) = 1
        /\ auditLog[1].decision.type = "allow"

(***************************************************************************)
(* The audit log.                                                          *)
(***************************************************************************)

\* The event starts a call for which the gateway calls policy.evaluate: the
\* tool is registered.
IsEvaluated(e) == e.type = "tool_start" /\ RegistryHas(coreTools, e.name)

\* The calls of the run's turn for which evaluate was called, in order.
EvaluateCalls == SelectSeq(events[1], IsEvaluated)

\* The event that follows the tool_start of call id in the turn.
AfterStart(id) ==
    LET i == CHOOSE j \in 1..Len(events[1]) :
                 events[1][j].type = "tool_start" /\ events[1][j].id = id
    IN  events[1][i + 1]

\* C17: every policy.evaluate call appends exactly one entry to the audit
\* log, with the user, the chat, the tool, the arguments and the decision of
\* that call (the decision the gateway then acted on).
C17_EveryEvaluateAudited ==
    /\ Len(auditLog) = Len(EvaluateCalls)
    /\ \A k \in 1..Len(auditLog) :
          LET entry == auditLog[k]
              call == EvaluateCalls[k]
          IN  /\ entry.userId = input[1].session.userId
              /\ entry.chatId = input[1].session.chatId
              /\ entry.tool = call.name
              /\ entry.args = call.args
              /\ entry.decision.type \in {"allow", "deny", "require_approval"}
              /\ entry.decision.type = "require_approval"
                    <=> AfterStart(call.id).type = "tool_pending"
              /\ entry.decision.type = "deny" =>
                    AfterStart(call.id).result.error = entry.decision.text

\* C18: after N audit appends the log holds min(N, MAX_AUDIT = 1000)
\* entries: the most recent ones, in the order they were appended; beyond
\* the capacity the oldest entries are the ones evicted.
C18_AuditLogKeepsNewest ==
    LET kept == IF auditCalls < maxAuditEntries THEN auditCalls ELSE maxAuditEntries
    IN  /\ Len(auditLog) = kept
        /\ \A i \in 1..kept : auditLog[i] = AuditEntry(auditCalls - kept + i)

\* More appends than the capacity: the log is full, its first entry is the
\* one appended capacity - 1 calls before the last.
C18_Witness ==
    /\ auditCalls > maxAuditEntries + 1
    /\ Len(auditLog) = maxAuditEntries
    /\ auditLog[1] = AuditEntry(auditCalls - maxAuditEntries + 1)
    /\ auditLog[maxAuditEntries] = AuditEntry(auditCalls)

(***************************************************************************)
(* The session store.                                                      *)
(***************************************************************************)

\* A step that changes the history of u to a history with messages pushed a
\* message and kept the last MAX_HISTORY messages, in order.
KeepsLastMessages(u) ==
    (sessions'[u] # sessions[u] /\ sessions'[u] # << >>) =>
        sessions'[u] =
            SliceLast(Append(sessions[u], Last(sessions'[u])), MAX_HISTORY)

\* C19: at every moment every session's history has at most MAX_HISTORY (20)
\* messages, after any sequence of handled user messages and addMessage
\* calls; at the bound the oldest messages are dropped and the last
\* MAX_HISTORY messages are kept in order.
C19_HistoryBounded ==
    /\ [](\A u \in Users : Len(sessions[u]) <= MAX_HISTORY)
    /\ [][\A u \in Users : KeepsLastMessages(u)]_vars

\* A step that gets the session of u: the router at the start of a message,
\* addMessage, getHistory or the /clear command.
GetsSession(u) ==
    HandledUserMessage(u) \/ AddMessage(u) \/ GetHistory(u) \/ ClearCommand(u)

\* The session of u was obtained within the timeout before now.
WithinTimeout(u) == now - lastActivity[u] <= SESSION_TIMEOUT

\* C20: after a sweep at time t every session remaining in the map has
\* t - lastActivity <= SESSION_TIMEOUT, where lastActivity is the time of the
\* most recent get of the session (every get sets it to the current time and
\* it is never in the future); a session obtained within the timeout is not
\* removed by the sweep and keeps its history.
C20_SweepRemovesExpiredOnly ==
    /\ [](\A u \in sessionKeys : lastActivity[u] <= now)
    /\ [][\A u \in Users :
             /\ GetsSession(u) => (u \in sessionKeys' /\ lastActivity'[u] = now')
             /\ (u \notin sessionKeys /\ u \in sessionKeys') => lastActivity'[u] = now'
             /\ (u \in sessionKeys /\ u \in sessionKeys'
                    /\ lastActivity'[u] # lastActivity[u]) => lastActivity'[u] = now']_vars
    /\ [][CleanupExpiredSessions =>
             /\ \A u \in sessionKeys' : WithinTimeout(u)'
             /\ \A u \in sessionKeys :
                   WithinTimeout(u) =>
                       /\ u \in sessionKeys'
                       /\ sessions'[u] = sessions[u]
                       /\ lastActivity'[u] = lastActivity[u]]_vars
    /\ [][sessionKeys' # sessionKeys =>
             \/ \E u \in Users : GetsSession(u)
             \/ /\ now' = now
                /\ sessionKeys' = { u \in sessionKeys : WithinTimeout(u) }
                /\ \A u \in sessionKeys' : sessions'[u] = sessions[u]]_vars

\* A sweep has removed the session of U2, last obtained more than the timeout
\* ago, and has kept the session of U1, obtained exactly the timeout ago,
\* with its history.
C20_Witness ==
    /\ pushCount = 2
    /\ sessionKeys = {"U1"}
    /\ sessions["U1"] = << UserMessage(1) >>
    /\ sessions["U2"] = << >>
    /\ now - lastActivity["U1"] = SESSION_TIMEOUT
    /\ now > SESSION_TIMEOUT

\* The session the handler of turn t got was deleted by a sweep while the
\* turn is in progress.
EvictedMidTurn(t) == routerPc[t] = "inAgent" /\ ~HoldsMappedSession(t)

\* C21: a sweep that evicts a session changes nothing of a turn in progress
\* and nothing of the permission bridge; the pending request of a turn whose
\* session was evicted stays in the pending map, a resolveRequest with its
\* id settles it with that decision, the waiting turn goes on with that
\* decision, and such a turn ends with done or error.
C21_EvictionLeavesTurnAlone ==
    /\ [][(sessionKeys' # sessionKeys /\ sessionKeys' \subseteq sessionKeys) =>
             UNCHANGED << turnVars, bridgeVars, routerPc, replies >>]_vars
    /\ [](\A t \in Turns :
             (EvictedMidTurn(t) /\ pc[t] = "awaiting"
                  /\ requests[reqOf[t]].promise = "pending") =>
                 reqOf[t] \in pendingRequests)
    /\ [][\A t \in Turns : \A d \in Decisions :
             (EvictedMidTurn(t) /\ pc[t] = "awaiting"
                  /\ reqOf[t] \in pendingRequests
                  /\ ResolveRequest(reqOf[t], d)) =>
                 requests'[reqOf[t]].promise = d]_vars
    /\ [][\A t \in Turns :
             (EvictedMidTurn(t) /\ pc[t] = "awaiting" /\ pc'[t] # "awaiting") =>
                 /\ Last(approvals'[t]).req = reqOf[t]
                 /\ Last(approvals'[t]).approved =
                        (requests[reqOf[t]].promise = "allow")
                 /\ (Last(approvals'[t]).approved <=>
                        Len(execLog'[t]) = Len(execLog[t]) + 1)]_vars
    /\ [](\A t \in Turns :
             (EvictedMidTurn(t) /\ TurnOver(t)) =>
                 Last(events[t]).type \in {"done", "error"})

\* The session of U1 was swept while its turn waits for the answer to a
\* permission prompt that was delivered.
C21_Witness ==
    /\ EvictedMidTurn(1)
    /\ "U1" \notin sessionKeys
    /\ pc[1] = "awaiting"
    /\ reqOf[1] \in pendingRequests
    /\ handlerCall[reqOf[1]] = "delivered"

\* After the sweep the user allowed the request and the turn ran the tool.
C21_WitnessResumed ==
    /\ EvictedMidTurn(1)
    /\ pc[1] = "done"
    /\ approvals[1] # << >>
    /\ Last(approvals[1]).approved
    /\ now > SESSION_TIMEOUT

\* A message added for the pair (userId, chatId).
AddedFor(m, userId, chatId) == m.content = << userId, chatId >>

\* C22: sessions are keyed by the pair (userId, chatId): the history of a
\* session holds only the messages added for one pair, the pair the session
\* was created for, and the history getHistory returns for a pair holds only
\* messages added for that pair.
C22_SessionsKeyedByPair ==
    /\ \A k \in DOMAIN sessionsByKey :
          \A m \in Range(sessionsByKey[k].history) :
              AddedFor(m, sessionsByKey[k].userId, sessionsByKey[k].chatId)
    /\ gotHistory.called =>
          \A m \in Range(gotHistory.history) :
              AddedFor(m, gotHistory.userId, gotHistory.chatId)

\* C23: truncation to MAX_HISTORY drops the oldest messages and keeps user
\* and assistant messages paired: no history begins with an assistant
\* message (every assistant message is pushed after the user message it
\* answers, so such a history has lost that user message).
C23_TruncationKeepsPairs ==
    \A u \in Users :
        sessions[u] # << >> => sessions[u][1].role # "assistant"

\* The history the caller of turn t supplied (none when it passed no history).
SuppliedHistory(t) ==
    IF input[t].history = Undefined THEN << >> ELSE input[t].history

\* C24: in every round of a turn llm.chat is called with the supplied history
\* followed by the current user message; with no history, with just the user
\* message.
C24_MessagesAreHistoryThenMessage ==
    \A t \in Turns : \A i \in DOMAIN chatLog[t] :
        chatLog[t][i].messages =
            Append(SuppliedHistory(t),
                   [role |-> "user", content |-> input[t].message])

\* A turn without a supplied history called the provider in a second round.
C24_NoHistoryRounds ==
    \A t \in Turns :
        (pc[t] # "idle" /\ SuppliedHistory(t) = << >>) =>
            \A i \in DOMAIN chatLog[t] :
                chatLog[t][i].messages =
                    << [role |-> "user", content |-> input[t].message] >>

\* The result the tool_result event of call id carries in evs.
ResultOfCall(evs, id) ==
    (CHOOSE e \in Range(evs) : e.type = "tool_result" /\ e.id = id).result

\* The request of a round after the first carries the results of the tool
\* calls collected in the round that ends with this step.
CarriesRoundResults(t) ==
    LET req == Last(chatLog'[t])
        calls == pendingToolCalls[t]
    IN  /\ req.hasToolResults
        /\ Len(req.toolResults) = Len(calls)
        /\ \A j \in 1..Len(calls) :
              /\ req.toolResults[j].toolCallId = calls[j].id
              /\ req.toolResults[j].toolName = calls[j].name
              /\ req.toolResults[j].toolArgs = calls[j].args
              /\ req.toolResults[j].toolCallMeta = calls[j].meta
              /\ req.toolResults[j].content =
                     StringifyResult(ResultOfCall(events'[t], calls[j].id))

\* C25: the toolResults of round k+1 are the results of the tool calls of
\* round k, one per call, in the order the calls were emitted, each with
\* the call's id, name, args and meta; the first round is called with no
\* toolResults.
C25_ToolResultsOfPreviousRound ==
    /\ [](\A t \in Turns :
             chatLog[t] # << >> =>
                 /\ ~chatLog[t][1].hasToolResults
                 /\ chatLog[t][1].toolResults = << >>)
    /\ [][\A t \in Turns :
             (chatLog[t] # << >> /\ Len(chatLog'[t]) = Len(chatLog[t]) + 1) =>
                 CarriesRoundResults(t)]_vars

\* A third round was called with the one result of the second round, after
\* a first round of two calls, one of them with a meta.
C25_Witness ==
    /\ Len(chatLog[1]) = 3
    /\ Len(chatLog[1][2].toolResults) = 2
    /\ chatLog[1][2].toolResults[1].toolCallId = 1
    /\ chatLog[1][2].toolResults[2].toolCallId = 2
    /\ \E j \in 1..2 : chatLog[1][2].toolResults[j].toolCallMeta = ThoughtSignature
    /\ Len(chatLog[1][3].toolResults) = 1
    /\ chatLog[1][3].toolResults[1].toolCallId = 3

\* The history of the session of the user of turn t.
HistoryOf(t) == sessions[input[t].session.userId]

\* The text of turn t is part of the message.
HoldsTextOf(m, t) == m.role = "assistant" /\ TextOf(t) \in Range(m.content)

\* The messages of the history that turn t pushed: its user message and the
\* assistant messages that hold text of the turn.
OwnMessages(t) ==
    SelectSeq(HistoryOf(t),
              LAMBDA m : (m.role = "user" /\ m = UserMessage(t)) \/ HoldsTextOf(m, t))

\* The routed turn t is over and ended with an event of that type.
FinishedWith(t, type) ==
    /\ routerPc[t] = "finished"
    /\ events[t] # << >>
    /\ Last(events[t]).type = type

\* Every stored message is the user message of a turn or an assistant message
\* holding the full text of a turn: no tool call and no tool result.
OnlyText ==
    \A u \in Users : \A m \in Range(sessions[u]) :
        \E s \in Turns :
            \/ m.role = "user" /\ m = UserMessage(s)
            \/ /\ m.role = "assistant"
               /\ fullResponse[s] # << >>
               /\ m = AssistantMessage(fullResponse[s])

\* The step with which the router finishes turn t.
RouterFinishes(t) == routerPc[t] = "inAgent" /\ routerPc'[t] = "finished"

\* C26 as stated: after a turn that ends with done the history has grown by
\* exactly one user message and one assistant message holding the final
\* text, and nothing of the tool calls is stored.
C26_DoneStoresUserAndAssistant ==
    /\ OnlyText
    /\ \A t \in Turns :
          FinishedWith(t, "done") =>
              /\ Len(OwnMessages(t)) = 2
              /\ OwnMessages(t)[1] = UserMessage(t)
              /\ OwnMessages(t)[2].role = "assistant"
              /\ OwnMessages(t)[2].content = fullResponse[t]

\* C26 amended: after a turn that ends with done with a final text that is
\* not empty the history has grown by exactly the user message and one
\* assistant message holding the final text, also when tools were called;
\* with an empty final text only the user message is added; nothing of the
\* tool calls is stored.
C26_DoneStoresTextOnly ==
    /\ [](OnlyText)
    /\ [](\A t \in Turns :
             FinishedWith(t, "done") =>
                 OwnMessages(t) =
                     IF fullResponse[t] # << >>
                     THEN << UserMessage(t), AssistantMessage(fullResponse[t]) >>
                     ELSE << UserMessage(t) >>)
    /\ [][\A t \in Turns :
             (RouterFinishes(t) /\ pc[t] = "done") =>
                 sessions' =
                     IF fullResponse[t] # << >>
                     THEN [sessions EXCEPT ![input[t].session.userId] =
                              Append(@, AssistantMessage(fullResponse[t]))]
                     ELSE sessions]_vars

\* A turn that ran an approved tool ended with done and its text is stored
\* after its user message.
C26_Witness ==
    /\ FinishedWith(1, "done")
    /\ execLog[1] # << >>
    /\ fullResponse[1] # << >>
    /\ sessions["U1"] = << UserMessage(1), AssistantMessage(fullResponse[1]) >>

\* C27: after a turn that ends with an error event the history is the
\* history before the turn plus the user message of the turn: the step that
\* finishes the turn stores nothing, and no assistant message holds text of
\* the turn.
C27_ErrorStoresUserMessageOnly ==
    /\ [](\A t \in Turns :
             FinishedWith(t, "error") => OwnMessages(t) = << UserMessage(t) >>)
    /\ [][\A t \in Turns :
             (RouterFinishes(t) /\ pc[t] = "error") => sessions' = sessions]_vars

\* A turn failed after the provider had streamed text: the history holds the
\* user message only.
C27_Witness ==
    /\ FinishedWith(1, "error")
    /\ fullResponse[1] # << >>
    /\ sessions["U1"] = << UserMessage(1) >>

\* C28: in the sequence of events chat() yields, an error event is the last
\* event: no event follows it, so there is at most one.
C28_ErrorOnceAndTerminal ==
    \A i \in 1..Len(adapterOut) :
        adapterOut[i].type = "error" => i = Len(adapterOut)

\* The frames of a stream that JSON.parse accepts.
WellFormed(frames) == SelectSeq(frames, LAMBDA f : f.type # "malformed")

\* The events chat() yielded for the frames it read: all of them, but the
\* event that ended the sequence.
YieldedForFrames ==
    IF adapterPc = "ended" /\ adapterOut # << >>
    THEN SubSeq(adapterOut, 1, Len(adapterOut) - 1)
    ELSE adapterOut

\* chat() reads a frame that cannot be parsed.
ReadsMalformedFrame ==
    /\ Len(adapterIn') = Len(adapterIn) + 1
    /\ adapterIn'[Len(adapterIn')].type = "malformed"

\* C30: a frame that cannot be parsed yields no event and does not end the
\* sequence; the events of a stream are those of its well-formed frames, the
\* ones after a malformed frame included.
C30_MalformedFrameSkipped ==
    /\ [](YieldedForFrames =
             ReadFrames(adapterKind, NoParserState, WellFormed(adapterIn)).out)
    /\ [][ReadsMalformedFrame =>
             /\ adapterOut' = adapterOut
             /\ adapterState' = adapterState
             /\ adapterPc' = "streaming"]_vars

\* A malformed frame was read, and the text frame after it was turned into
\* its event.
C30_Witness ==
    /\ Len(adapterIn) >= 2
    /\ adapterIn[1].type = "malformed"
    /\ adapterIn[2] = TextFrame(<<"hi">>)
    /\ adapterOut = <<LlmTextEv(<<"hi">>)>>

\* The tool results of a turn for calls with the empty object as arguments,
\* which is what a call with unparsable argument text is collected with.
EmptyArgResultsFail(t) ==
    \A i \in 1..Len(events[t]) :
        LET e == events[t][i]
        IN  (e.type = "tool_result" /\ e.args = EmptyObject) => ~e.result.success

\* C29: a tool call whose accumulated argument text is not valid JSON does
\* not abort the turn: the step that delivers it yields no event and the call
\* is collected for the round, and the call's tool result is a failed one
\* (which the next provider round receives).
C29_MalformedArgsRecoverable ==
    /\ [](\A t \in Turns : EmptyArgResultsFail(t))
    /\ [][\A t \in Turns : LlmMalformedToolCall(t) =>
             /\ pc'[t] = "llm"
             /\ events'[t] = events[t]
             /\ Len(pendingToolCalls'[t]) = Len(pendingToolCalls[t]) + 1]_vars

\* C31: the deadline bounds the request for its whole duration: once the
\* provider accepted the request and the stream is read, chat() ends, also
\* when the provider sends nothing more.
C31_DeadlineBoundsRead ==
    (adapterPc = "streaming") ~> (adapterPc = "ended")

\* The function calls the frames of a stream complete, by item.
CompletedItems(frames) ==
    { frames[i].index : i \in { j \in 1..Len(frames) :
                                    frames[j].type \in {"args_done", "item_done"} } }

\* The tool_call events of a sequence, by position.
ToolCallEvents(evs) == { i \in 1..Len(evs) : evs[i].type = "tool_call" }

\* C32: the responses adapter yields at most one tool_call event per
\* function call of the stream, whichever of output_item.added,
\* function_call_arguments.done and output_item.done arrive for it.
C32_OneToolCallPerFunctionCall ==
    adapterKind = "responses" =>
        Cardinality(ToolCallEvents(adapterOut)) <=
            Cardinality(CompletedItems(adapterIn))

\* The frames read since the last finish_reason frame.
RoundFrames(frames) ==
    LET finishes == { j \in 1..Len(frames) : frames[j].type = "finish" }
        last == IF finishes = {} THEN 0
                ELSE CHOOSE j \in finishes : \A k \in finishes : k <= j
    IN SubSeq(frames, last + 1, Len(frames))

\* The tool-call fragments of an index among frames, in arrival order.
FragmentsOf(frames, idx) ==
    SelectSeq(frames, LAMBDA f : f.type = "tool_delta" /\ f.index = idx)

RECURSIVE ConcatText(_)
ConcatText(frames) ==
    IF frames = << >> THEN << >>
    ELSE Head(frames).text \o ConcatText(Tail(frames))

\* The last id and the last name the fragments of an index carried.
RECURSIVE LastId(_)
LastId(frames) ==
    IF frames = << >> THEN ""
    ELSE IF LastId(Tail(frames)) # "" THEN LastId(Tail(frames))
    ELSE Head(frames).id

RECURSIVE LastName(_)
LastName(frames) ==
    IF frames = << >> THEN << >>
    ELSE IF LastName(Tail(frames)) # << >> THEN LastName(Tail(frames))
    ELSE Head(frames).name

\* The tool_call event the claim expects for an index: the parse of its
\* concatenated fragments, {} for an index without argument text.
ExpectedCall(frames, idx) ==
    LET fs == FragmentsOf(frames, idx)
        text == ConcatText(fs)
    IN LlmEv("tool_call", LastId(fs), LastName(fs),
             IF text = << >> THEN EmptyObject ELSE ParseJson(text).value, << >>)

\* chat() of the completions adapter reads a frame with finish_reason
\* tool_calls or stop.
ReadsFinish ==
    /\ adapterKind = "completions"
    /\ Len(adapterIn') = Len(adapterIn) + 1
    /\ adapterIn'[Len(adapterIn')].type = "finish"

\* C33: at finish_reason the completions adapter yields exactly one
\* tool_call per index that received fragments since the last finish, with
\* the id and name of the index and the parse of its fragments concatenated
\* in arrival order: none twice, none lost.
C33_OneToolCallPerIndex ==
    [][ReadsFinish =>
          LET round == RoundFrames(adapterIn)
              idxs == { round[i].index :
                          i \in { j \in 1..Len(round) : round[j].type = "tool_delta" } }
              new == SubSeq(adapterOut', Len(adapterOut) + 1, Len(adapterOut'))
          IN  /\ Len(new) = Cardinality(idxs)
              /\ \A idx \in idxs :
                    Cardinality({ i \in 1..Len(new) :
                                    new[i] = ExpectedCall(round, idx) }) = 1]_vars

\* The keys of a shape whose field is not wrapped as optional, default or
\* nullable.
NotOptionalKeys(shape) ==
    { shape[i].key : i \in { j \in 1..Len(shape) :
          Head(shape[j].typeNames) \notin {"ZodOptional", "ZodDefault", "ZodNullable"} } }

\* The keys a schema lists as required.
RequiredKeys(schema) ==
    IF schema.required = Undefined THEN {}
    ELSE { schema.required[i] : i \in 1..Len(schema.required) }

\* C34: for every registered tool, required of its schema holds exactly the
\* top-level fields that are not wrapped as optional, default or nullable.
C34_RequiredIsNotOptionalFields ==
    schemas.called =>
        \A d \in schemas.tools :
            \E e \in schemas.list :
                /\ e.name = d.name
                /\ RequiredKeys(e.input_schema) = NotOptionalKeys(d.shape)

\* C35: execute always returns a ToolResult: tool not found for a name that
\* is not registered, invalid arguments without the tool's executor function
\* running when validation fails, and a failure with an error text when the
\* executor function throws.
C35_ExecuteAlwaysReturns ==
    executed.called =>
        LET r == executed.settled
        IN  /\ r.kind = "return"
            /\ r.result.success \in BOOLEAN
            /\ ~RegistryHas(executed.tools, executed.name) =>
                  r.result = ToolResult(FALSE, "Tool not found") /\ ~r.invoked
            /\ (RegistryHas(executed.tools, executed.name)
                 /\ ~ValidateArgs(executed.tools, executed.name, executed.args)) =>
                  r.result = ToolResult(FALSE, "Invalid arguments") /\ ~r.invoked
            /\ (r.invoked /\ executed.outcome = "throw") =>
                  ~r.result.success /\ r.result.error # ""

\* The executor function of a registered tool ran with valid arguments and
\* threw, and execute returned the failure.
C35_Witness ==
    /\ executed.called
    /\ executed.outcome = "throw"
    /\ executed.settled.invoked
    /\ executed.settled = Settled("return", ToolResult(FALSE, "tool error"), TRUE)

\* The turn waits for a request whose handler returned without a prompt
\* having been delivered.
AwaitsUndelivered(t) ==
    /\ pc[t] = "awaiting"
    /\ reqOf[t] \in ReqIds
    /\ handlerCall[reqOf[t]] = "returned"

\* C36: a request whose prompt could not be delivered (no channel for the
\* request's channelId, or a channel without permission prompts) is resolved
\* at some time: the turn that awaits it does not wait forever.
C36_UndeliveredRequestResolves ==
    \A t \in Turns : AwaitsUndelivered(t) ~> (pc[t] # "awaiting")

\* The router hands turn t to the agent: the first llm.chat call of the turn
\* is made with this step.
EntersAgent(t) == chatLog[t] = << >> /\ chatLog'[t] # << >>

\* The user of the turn that enters the agent already has stored messages.
LaterMessage(t) ==
    /\ EntersAgent(t)
    /\ sessions[input'[t].session.userId] # << >>

\* C37: on a later message of a user, the messages of the first llm.chat call
\* are the session's earlier user and assistant messages, in order, followed
\* by the new user message.
C37_LaterMessageCarriesHistory ==
    [][\A t \in Turns :
          LaterMessage(t) =>
              chatLog'[t][1].messages =
                  Append(sessions[input'[t].session.userId], UserMessage(t))]_vars

\* The command text holds something that starts a second command: ; & |, a
\* backquote, $(, a redirection, or a new line inside the text.
HasSecondCommand(command) ==
    \/ \E i \in DOMAIN command : command[i] \in {";", "&", "|", Backtick, ">", "<"}
    \/ Includes(command, <<"$","(">>)
    \/ \E i \in DOMAIN Trim(command) : Trim(command)[i] = "\n"

\* The evaluate call was decided by the shell heuristics for a command text
\* that names an entry of the confirm list: of the paths of the heuristics
\* only the safe read-only one allows such a command.
ListedShellCommand ==
    LET command == ArgField(evalCall.args, "command")
    IN  /\ HeuristicsDecide
        /\ ShellName(evalCall.tool)
        /\ IsString(command)
        /\ \E i \in DOMAIN shellList : Includes(command, shellList[i])

\* C38: a bash or shell command that holds a second command never takes the
\* safe read-only allow path: when it names an entry of the confirm list it
\* is not allowed but sent for approval.
C38_SafePathIsSingleCommand ==
    (ListedShellCommand /\ HasSecondCommand(ArgField(evalCall.args, "command")))
        => evalCall.result.type = "require_approval"

\* C39: the LLM rounds of a turn never exceed the configured
\* llm.maxIterations, whatever value is configured (0 included), and never
\* exceed 10 when no value is configured.
C39_RoundsWithinConfiguredCap ==
    \A t \in Turns :
        /\ \A n \in llmMaxIterations : Len(chatLog[t]) <= n
        /\ llmMaxIterations = {} => Len(chatLog[t]) <= 10

\* The message of turn t was passed to the agent.
Served(t) == routerPc[t] # "idle" /\ pc[t] # "idle"

\* The message of turn t was answered with the refusal.
Refused(t) == routerPc[t] = "finished" /\ pc[t] = "idle"

\* C40: a message of user u on channel c is passed to the agent exactly when
\* the whitelist configured for c is empty or contains u.
C40_ChannelWhitelistDecides ==
    \A t \in Turns :
        arrival[t] # NoArrival =>
            LET list == allowedUsers[arrival[t].channelId]
                listed == list = {} \/ arrival[t].userId \in list
            IN  /\ Served(t) => listed
                /\ Refused(t) => ~listed

====
